---------------------------- MODULE Spec2Model ----------------------------
(***************************************************************************)
(* BER Automation: the HWB calculation engine (ber_engine/calculator.py),  *)
(* its constant tables (ber_engine/constants.py), the rating classifier    *)
(* (ber_engine/rating.py) and the input models (models.py).                *)
(*                                                                         *)
(* Python floats are modelled in fixed point: a real x is the integer      *)
(* x * SCALE, truncated toward zero after every multiplication and         *)
(* division, so that every arithmetic step of the source is one step here. *)
(***************************************************************************)
EXTENDS Integers, Sequences, FiniteSets, TLC

VARIABLES tables, building, retrofit, kwh_arg, result, raised, lastCall,
          threads, kwargs, pipeline

vars == <<tables, building, retrofit, kwh_arg, result, raised, lastCall,
          threads, kwargs, pipeline>>

---------------------------------------------------------------------------
(* Fixed-point arithmetic                                                  *)

SCALE == 10 * 10 * 10

MaxInt == 1073741823 * 2 + 1

Abs(x) == IF x < 0 THEN -x ELSE x

Sign(x) == IF x < 0 THEN -1 ELSE 1

Max(a, b) == IF a >= b THEN a ELSE b

Min(a, b) == IF a <= b THEN a ELSE b

\* <<q, r>> with a * b = q * c + r and 0 <= r < c, for a, b >= 0 and c > 0,
\* without an intermediate product above MaxInt.
RECURSIVE MulDivQR(_, _, _)
MulDivQR(a, b, c) ==
    IF a = 0 \/ b <= MaxInt \div a
    THEN <<(a * b) \div c, (a * b) % c>>
    ELSE LET h == MulDivQR(a, b \div 2, c)
             e == IF b % 2 = 1 THEN a ELSE 0
             r == (h[2] + (e % c)) + h[2]
         IN  <<h[1] + h[1] + (e \div c) + (r \div c), r % c>>

\* a * b / c, truncated toward zero.
MulDiv(a, b, c) ==
    Sign(a) * Sign(b) * Sign(c) * MulDivQR(Abs(a), Abs(b), Abs(c))[1]

\* x * y and x / y of two fixed-point numbers.
Mul(x, y) == MulDiv(x, y, SCALE)

Div(x, y) == MulDiv(x, SCALE, y)

\* float(n) of an int, and the fixed-point value of the decimal n / d.
FromInt(n) == n * SCALE

Dec(n, d) == (n * SCALE) \div d

\* Optional[T]: None is the empty tuple, a present value v is <<v>>.
None == <<>>

Some(v) == <<v>>

IsNone(o) == o = <<>>

Val(o) == o[1]

\* Python's round(x, 2): the nearest hundredth, ties to the even hundredth.
round2(x) ==
    LET step == SCALE \div 100
        m    == Abs(x)
        q    == m \div step
        r    == m % step
        up   == (2 * r > step) \/ (2 * r = step /\ q % 2 = 1)
    IN  Sign(x) * (IF up THEN q + 1 ELSE q) * step

\* Python's round(x, 1): the nearest tenth, ties to the even tenth. The
\* result stays a fixed-point number.
round1(x) ==
    LET step == SCALE \div 10
        m    == Abs(x)
        q    == m \div step
        r    == m % step
        up   == (2 * r > step) \/ (2 * r = step /\ q % 2 = 1)
    IN  Sign(x) * (IF up THEN q + 1 ELSE q) * step

---------------------------------------------------------------------------
(* models.py: the enums                                                    *)

BuildingType ==
    {"detached", "semi_d_length", "semi_d_width", "terraced_length", "terraced_width"}

ConstructionEpoch ==
    {"before_1980", "1980_1990", "1990_2000", "2000_2010", "after_2010"}

HeatingSystem ==
    {"oil_boiler", "gas_boiler", "biomass", "electric_direct",
     "heat_pump_air", "heat_pump_ground", "heat_pump_water", "district_heating"}

Country == {"ireland", "france", "germany", "belgium", "netherlands", "austria"}

---------------------------------------------------------------------------
(* constants.py: the lookup tables and the scalar constants                *)

U_VALUES ==
       "before_1980" :> [KD |-> Dec(135, 100), OD |-> Dec(65, 100), AW |-> Dec(120, 100), FE |-> Dec(300, 100)]
    @@ "1980_1990"   :> [KD |-> Dec(75, 100), OD |-> Dec(275, 1000), AW |-> Dec(60, 100), FE |-> Dec(250, 100)]
    @@ "1990_2000"   :> [KD |-> Dec(60, 100), OD |-> Dec(235, 1000), AW |-> Dec(45, 100), FE |-> Dec(215, 100)]
    @@ "2000_2010"   :> [KD |-> Dec(40, 100), OD |-> Dec(20, 100), AW |-> Dec(35, 100), FE |-> Dec(140, 100)]
    @@ "after_2010"  :> [KD |-> Dec(25, 100), OD |-> Dec(20, 100), AW |-> Dec(22, 100), FE |-> Dec(100, 100)]

G_VALUES ==
       "before_1980" :> Dec(81, 100)
    @@ "1980_1990"   :> Dec(70, 100)
    @@ "1990_2000"   :> Dec(65, 100)
    @@ "2000_2010"   :> Dec(585, 1000)
    @@ "after_2010"  :> Dec(465, 1000)

HEATING_DEGREE_DAYS ==
       "ireland"     :> Dec(21491, 10)
    @@ "france"      :> Dec(14620, 10)
    @@ "germany"     :> Dec(21571, 10)
    @@ "belgium"     :> Dec(18255, 10)
    @@ "netherlands" :> Dec(19213, 10)
    @@ "austria"     :> Dec(34000, 10)

HEATING_DAYS ==
       "ireland"     :> FromInt(219)
    @@ "france"      :> FromInt(187)
    @@ "germany"     :> FromInt(211)
    @@ "belgium"     :> FromInt(209)
    @@ "netherlands" :> FromInt(212)
    @@ "austria"     :> FromInt(260)

Irr(n, e, s, w) ==
    [north |-> FromInt(n), east |-> FromInt(e), south |-> FromInt(s), west |-> FromInt(w)]

SOLAR_IRRADIANCE ==
       "ireland"     :> Irr(102, 227, 423, 240)
    @@ "france"      :> Irr(95, 207, 412, 219)
    @@ "germany"     :> Irr(133, 215, 331, 207)
    @@ "belgium"     :> Irr(160, 222, 321, 225)
    @@ "netherlands" :> Irr(162, 239, 365, 243)
    @@ "austria"     :> Irr(90, 150, 290, 150)

\* The efficiency table without an entry for district heating.
HEATING_SYSTEM_EFFICIENCY_without_district ==
       "oil_boiler"       :> Dec(85, 100)
    @@ "gas_boiler"       :> Dec(90, 100)
    @@ "biomass"          :> Dec(875, 1000)
    @@ "electric_direct"  :> Dec(99, 100)
    @@ "heat_pump_air"    :> Dec(350, 100)
    @@ "heat_pump_ground" :> Dec(450, 100)
    @@ "heat_pump_water"  :> Dec(450, 100)

HEATING_SYSTEM_EFFICIENCY ==
       "oil_boiler"       :> Dec(85, 100)
    @@ "gas_boiler"       :> Dec(90, 100)
    @@ "biomass"          :> Dec(875, 1000)
    @@ "electric_direct"  :> Dec(99, 100)
    @@ "heat_pump_air"    :> Dec(350, 100)
    @@ "heat_pump_ground" :> Dec(450, 100)
    @@ "heat_pump_water"  :> Dec(450, 100)
    @@ "district_heating" :> Dec(95, 100)

PRIMARY_ENERGY_FACTOR ==
       "oil_boiler"       :> Dec(110, 100)
    @@ "gas_boiler"       :> Dec(110, 100)
    @@ "biomass"          :> Dec(110, 100)
    @@ "electric_direct"  :> Dec(208, 100)
    @@ "heat_pump_air"    :> Dec(208, 100)
    @@ "heat_pump_ground" :> Dec(208, 100)
    @@ "heat_pump_water"  :> Dec(208, 100)
    @@ "district_heating" :> Dec(110, 100)

\* kg CO2 per kWh: CO2_FACTOR_TONNES * 1000, key by key.
CO2_FACTOR ==
       "oil_boiler"       :> Dec(2639, 10000)
    @@ "gas_boiler"       :> Dec(194, 1000)
    @@ "biomass"          :> 0
    @@ "electric_direct"  :> Dec(210, 1000)
    @@ "heat_pump_air"    :> Dec(210, 1000)
    @@ "heat_pump_ground" :> Dec(210, 1000)
    @@ "heat_pump_water"  :> Dec(210, 1000)
    @@ "district_heating" :> Dec(180, 1000)

WINDOW_AREA_FRACTION ==
       "detached"        :> Dec(15, 100)
    @@ "semi_d_length"   :> Dec(14, 100)
    @@ "semi_d_width"    :> Dec(14, 100)
    @@ "terraced_length" :> Dec(13, 100)
    @@ "terraced_width"  :> Dec(13, 100)

HOT_WATER_LITRES_PER_PERSON_PER_DAY == FromInt(40)

HOT_WATER_TEMP_RISE_K == FromInt(45)

\* 4.2 / 3600.0 is below the fixed-point resolution, so it is kept as the
\* exact ratio and applied as one multiply-divide.
HOT_WATER_SPECIFIC_HEAT == <<42, 36000>>

INSULATION_CONDUCTIVITY == Dec(35, 1000)

FRAME_FACTOR == Dec(9, 10)

DIRT_FACTOR == Dec(98, 100)

SHADING_FACTOR == Dec(75, 100)

AIR_HEAT_CAPACITY == Dec(34, 100)

AIR_CHANGE_RATE == Dec(4, 10)

INTERNAL_GAIN_RATE == Dec(375, 100)

NET_TO_GROSS_RATIO == Dec(8, 10)

FLOOR_THICKNESS == Dec(35, 100)

FLOOR_U_FACTOR == Dec(7, 10)

THERMAL_BRIDGE_REFERENCE == Dec(75, 100)

THERMAL_BRIDGE_FACTOR == Dec(2, 10)

HDD_TO_KWH_FACTOR == Dec(24, 1000)

\* float("inf"), the threshold of the last band.
Inf == MaxInt

BER_BANDS ==
    << <<"A1", FromInt(25),  "#00A651">>,
       <<"A2", FromInt(50),  "#4DB848">>,
       <<"A3", FromInt(75),  "#8CC63F">>,
       <<"B1", FromInt(100), "#BFD730">>,
       <<"B2", FromInt(125), "#FFF200">>,
       <<"B3", FromInt(150), "#FFC20E">>,
       <<"C1", FromInt(175), "#F99D1C">>,
       <<"C2", FromInt(200), "#F47920">>,
       <<"C3", FromInt(225), "#EF4136">>,
       <<"D1", FromInt(260), "#ED1C24">>,
       <<"D2", FromInt(300), "#C1272D">>,
       <<"E1", FromInt(340), "#A1232B">>,
       <<"E2", FromInt(380), "#8B1A29">>,
       <<"F",  FromInt(450), "#6D1A27">>,
       <<"G",  Inf,          "#4A1525">> >>

\* The module globals of constants.py as the program holds them in memory.
ConstantTables ==
    [U_VALUES                  |-> U_VALUES,
     G_VALUES                  |-> G_VALUES,
     HEATING_DEGREE_DAYS       |-> HEATING_DEGREE_DAYS,
     HEATING_DAYS              |-> HEATING_DAYS,
     SOLAR_IRRADIANCE          |-> SOLAR_IRRADIANCE,
     HEATING_SYSTEM_EFFICIENCY |-> HEATING_SYSTEM_EFFICIENCY,
     PRIMARY_ENERGY_FACTOR     |-> PRIMARY_ENERGY_FACTOR,
     CO2_FACTOR                |-> CO2_FACTOR,
     WINDOW_AREA_FRACTION      |-> WINDOW_AREA_FRACTION,
     BER_BANDS                 |-> BER_BANDS]


---------------------------------------------------------------------------
(* rating.py                                                               *)

\* band_loop with an exclusive comparison.
RECURSIVE band_loop_exclusive(_, _)
band_loop_exclusive(kwh_per_m2, i) ==
    IF i > Len(tables.BER_BANDS) THEN 0
    ELSE IF kwh_per_m2 < tables.BER_BANDS[i][2] THEN i
    ELSE band_loop_exclusive(kwh_per_m2, i + 1)

\* The index of the entry at which the loop of get_ber_band returns, scanning
\* from entry i; 0 when the loop runs off the end of the table.
RECURSIVE band_loop(_, _)
band_loop(kwh_per_m2, i) ==
    IF i > Len(tables.BER_BANDS) THEN 0
    ELSE IF kwh_per_m2 <= tables.BER_BANDS[i][2] THEN i
    ELSE band_loop(kwh_per_m2, i + 1)

\* get_ber_band: <<band, color>>.
get_ber_band(kwh_per_m2) ==
    LET i == band_loop(kwh_per_m2, 1)
    IN  IF i # 0
        THEN <<tables.BER_BANDS[i][1], tables.BER_BANDS[i][3]>>
        ELSE <<"G", "#4A1525">>

---------------------------------------------------------------------------
(* models.py: BuildingInput, RetrofitInput                                 *)

\* Field constraints that let a zero through: ge=0 in place of gt=0 and of
\* ge=1.
ValidBuildingInput_ge_zero(data) ==
    /\ data.length >= 0
    /\ data.width >= 0
    /\ data.heated_storeys >= 0
    /\ data.storey_height >= 0
    /\ data.quantity >= 1
    /\ data.building_type \in BuildingType
    /\ data.construction_epoch \in ConstructionEpoch
    /\ data.country \in Country
    /\ data.heating_system \in HeatingSystem

\* The Field constraints pydantic checks when a BuildingInput is built.
ValidBuildingInput(data) ==
    /\ data.length > 0
    /\ data.width > 0
    /\ data.heated_storeys >= 1
    /\ data.storey_height > 0
    /\ data.quantity >= 1
    /\ data.building_type \in BuildingType
    /\ data.construction_epoch \in ConstructionEpoch
    /\ data.country \in Country
    /\ data.heating_system \in HeatingSystem

\* The Field constraints pydantic checks when a RetrofitInput is built.
ValidRetrofitInput(data) ==
    /\ data.wall_insulation_cm >= 0
    /\ data.roof_insulation_cm >= 0
    /\ data.window_u_value > 0
    /\ (IsNone(data.heating_system_after) \/ Val(data.heating_system_after) \in HeatingSystem)

floor_area_per_storey(b) == Mul(b.length, b.width)

total_heated_area(b) == floor_area_per_storey(b) * b.heated_storeys

\* The residents property without the floor of one resident.
effective_residents_unfloored(b) ==
    IF ~IsNone(b.residents)
    THEN Val(b.residents)
    ELSE Div(total_heated_area(b), FromInt(52))

effective_residents(b) ==
    IF ~IsNone(b.residents)
    THEN Val(b.residents)
    ELSE Max(FromInt(1), Div(total_heated_area(b), FromInt(52)))

---------------------------------------------------------------------------
(* calculator.py: private helpers                                          *)

\* Party-wall areas with the sign turned, so that they are added to the
\* external wall instead of deducted from it.
adjacent_wall_area_added(b) ==
    LET h == b.heated_storeys * b.storey_height
    IN  CASE b.building_type = "semi_d_length"   -> 0 - Mul(b.length, h)
          [] b.building_type = "semi_d_width"    -> 0 - Mul(b.width, h)
          [] b.building_type = "terraced_length" -> 0 - Mul(b.length, h) * 2
          [] b.building_type = "terraced_width"  -> 0 - Mul(b.width, h) * 2
          [] OTHER                               -> 0

adjacent_wall_area(b) ==
    LET h == b.heated_storeys * b.storey_height
    IN  CASE b.building_type = "semi_d_length"   -> Mul(b.length, h)
          [] b.building_type = "semi_d_width"    -> Mul(b.width, h)
          [] b.building_type = "terraced_length" -> Mul(b.length, h) * 2
          [] b.building_type = "terraced_width"  -> Mul(b.width, h) * 2
          [] OTHER                               -> 0

window_door_total(b, envelope_area) ==
    IF ~IsNone(b.window_door_areas)
    THEN LET wd == Val(b.window_door_areas)
         IN  wd.north + wd.east + wd.south + wd.west + wd.doors
    ELSE Mul(envelope_area, tables.WINDOW_AREA_FRACTION[b.building_type])

window_door_by_orientation(b, total) ==
    IF ~IsNone(b.window_door_areas)
    THEN Val(b.window_door_areas)
    ELSE LET quarter == Div(total, FromInt(4))
         IN  [north |-> quarter, east |-> quarter, south |-> quarter,
              west |-> quarter, doors |-> 0]

\* The dict that _apply_retrofit passes to BuildingInput(**data).
apply_retrofit_data(b, r) ==
    [b EXCEPT
        !.heating_system = IF ~IsNone(r.heating_system_after)
                           THEN Val(r.heating_system_after)
                           ELSE @,
        !.hot_water_electric_separate = r.hot_water_electric_separate_after]

\* _apply_retrofit: the new BuildingInput (its construction validates it).
apply_retrofit(b, r) == apply_retrofit_data(b, r)

\* What _apply_retrofit leaves in the caller's BuildingInput: model_dump()
\* builds a new dict and BuildingInput(**data) a new object.
building_after_apply_retrofit(b, r) == b

---------------------------------------------------------------------------
(* calculator.py: the core calculation                                     *)

\* Geometry with the volume of the net area taken over one storey height
\* only.
core_geometry_volume_once(b) ==
    LET gross_area     == Mul(b.length, b.width) * b.heated_storeys
        net_area       == Mul(gross_area, NET_TO_GROSS_RATIO)
        envelope_area  == Mul(((b.length + b.width) * 2) * b.heated_storeys, b.storey_height)
        win_door_total == window_door_total(b, envelope_area)
        total_walls    == envelope_area - win_door_total
    IN  [gross_area     |-> gross_area,
         net_area       |-> net_area,
         envelope_area  |-> envelope_area,
         roof_area      |-> Mul(b.length, b.width),
         floor_area     |-> Mul(b.length, b.width),
         win_door_total |-> win_door_total,
         external_walls |-> total_walls - adjacent_wall_area(b),
         win_doors      |-> window_door_by_orientation(b, win_door_total),
         volume         |-> Mul(net_area, b.storey_height - FLOOR_THICKNESS)]

\* Geometry (lines 153-207).
core_geometry(b) ==
    LET gross_area     == Mul(b.length, b.width) * b.heated_storeys
        net_area       == Mul(gross_area, NET_TO_GROSS_RATIO)
        envelope_area  == Mul(((b.length + b.width) * 2) * b.heated_storeys, b.storey_height)
        win_door_total == window_door_total(b, envelope_area)
        total_walls    == envelope_area - win_door_total
    IN  [gross_area     |-> gross_area,
         net_area       |-> net_area,
         envelope_area  |-> envelope_area,
         roof_area      |-> Mul(b.length, b.width),
         floor_area     |-> Mul(b.length, b.width),
         win_door_total |-> win_door_total,
         external_walls |-> total_walls - adjacent_wall_area(b),
         win_doors      |-> window_door_by_orientation(b, win_door_total),
         volume         |-> Mul(net_area, b.storey_height - FLOOR_THICKNESS) * b.heated_storeys]

\* L_t with the thermal-bridge supplement not floored at zero.
core_transmission_unfloored(u, geo) ==
    LET a_win      == geo.win_door_total
        l_e        == Mul(u.FE, a_win)
                      + Mul(u.OD, geo.roof_area)
                      + Mul(Mul(u.KD, geo.floor_area), FLOOR_U_FACTOR)
                      + Mul(u.AW, geo.external_walls)
        total_area == a_win + geo.roof_area + geo.floor_area + geo.external_walls
        u_mean     == Div(l_e, total_area)
        l_psi      == IF total_area > 0
                      THEN Mul(Mul(THERMAL_BRIDGE_FACTOR, THERMAL_BRIDGE_REFERENCE - u_mean), l_e)
                      ELSE 0
    IN  l_e + l_psi

\* Transmission heat-loss coefficient L_t with the thermal-bridge supplement
\* (lines 209-230).
core_transmission(u, geo) ==
    LET a_win      == geo.win_door_total
        l_e        == Mul(u.FE, a_win)
                      + Mul(u.OD, geo.roof_area)
                      + Mul(Mul(u.KD, geo.floor_area), FLOOR_U_FACTOR)
                      + Mul(u.AW, geo.external_walls)
        total_area == a_win + geo.roof_area + geo.floor_area + geo.external_walls
        u_mean     == Div(l_e, total_area)
        l_psi      == IF total_area > 0
                      THEN Max(Mul(Mul(THERMAL_BRIDGE_FACTOR, THERMAL_BRIDGE_REFERENCE - u_mean), l_e), 0)
                      ELSE 0
    IN  l_e + l_psi

\* The demand section without the clamp of line 267.
core_demand_unclamped(b, g, geo, l_t) ==
    LET hdd          == tables.HEATING_DEGREE_DAYS[b.country]
        q_t          == Mul(Mul(HDD_TO_KWH_FACTOR, l_t), hdd)
        l_v          == Mul(Mul(AIR_HEAT_CAPACITY, AIR_CHANGE_RATE), geo.volume)
        q_v          == Mul(Mul(HDD_TO_KWH_FACTOR, l_v), hdd)
        heating_days == tables.HEATING_DAYS[b.country]
        q_i          == Mul(Mul(Mul(HDD_TO_KWH_FACTOR, INTERNAL_GAIN_RATE), geo.net_area), heating_days)
        g_eff        == Mul(Mul(g, FRAME_FACTOR), DIRT_FACTOR)
        irr          == tables.SOLAR_IRRADIANCE[b.country]
        win_doors    == geo.win_doors
        q_s          == Mul(Mul(Mul(irr.north, win_doors.north)
                                + Mul(irr.east, win_doors.east)
                                + Mul(irr.south, win_doors.south)
                                + Mul(irr.west, win_doors.west),
                                SHADING_FACTOR), g_eff)
    IN  [l_t       |-> l_t,
         l_v       |-> l_v,
         q_s       |-> q_s,
         q_i       |-> q_i,
         q_heating |-> q_t + q_v - q_i - q_s]

\* Losses, gains and the heating demand for L_t = l_t (lines 232-270).
core_demand(b, g, geo, l_t) ==
    LET hdd          == tables.HEATING_DEGREE_DAYS[b.country]
        q_t          == Mul(Mul(HDD_TO_KWH_FACTOR, l_t), hdd)
        l_v          == Mul(Mul(AIR_HEAT_CAPACITY, AIR_CHANGE_RATE), geo.volume)
        q_v          == Mul(Mul(HDD_TO_KWH_FACTOR, l_v), hdd)
        heating_days == tables.HEATING_DAYS[b.country]
        q_i          == Mul(Mul(Mul(HDD_TO_KWH_FACTOR, INTERNAL_GAIN_RATE), geo.net_area), heating_days)
        g_eff        == Mul(Mul(g, FRAME_FACTOR), DIRT_FACTOR)
        irr          == tables.SOLAR_IRRADIANCE[b.country]
        win_doors    == geo.win_doors
        q_s          == Mul(Mul(Mul(irr.north, win_doors.north)
                                + Mul(irr.east, win_doors.east)
                                + Mul(irr.south, win_doors.south)
                                + Mul(irr.west, win_doors.west),
                                SHADING_FACTOR), g_eff)
    IN  [l_t       |-> l_t,
         l_v       |-> l_v,
         q_s       |-> q_s,
         q_i       |-> q_i,
         q_heating |-> Max(0, q_t + q_v - q_i - q_s)]

\* Final energy obtained by multiplying the demand by the efficiency.
core_final_energy_times_eff(b, q_heating) ==
    LET residents  == effective_residents(b)
        q_hotwater == Mul(MulDiv(Mul(residents, HOT_WATER_LITRES_PER_PERSON_PER_DAY) * 365,
                                 HOT_WATER_SPECIFIC_HEAT[1], HOT_WATER_SPECIFIC_HEAT[2]),
                          HOT_WATER_TEMP_RISE_K)
        eff        == tables.HEATING_SYSTEM_EFFICIENCY[b.heating_system]
        hw_eff     == IF b.hot_water_electric_separate
                      THEN tables.HEATING_SYSTEM_EFFICIENCY["electric_direct"]
                      ELSE eff
    IN  [q_hotwater     |-> q_hotwater,
         final_heating  |-> Mul(q_heating, eff),
         final_hotwater |-> Mul(q_hotwater, hw_eff)]

\* Hot water and final energy for the heating demand q_heating
\* (lines 272-296).
core_final_energy(b, q_heating) ==
    LET residents  == effective_residents(b)
        q_hotwater == Mul(MulDiv(Mul(residents, HOT_WATER_LITRES_PER_PERSON_PER_DAY) * 365,
                                 HOT_WATER_SPECIFIC_HEAT[1], HOT_WATER_SPECIFIC_HEAT[2]),
                          HOT_WATER_TEMP_RISE_K)
        eff        == tables.HEATING_SYSTEM_EFFICIENCY[b.heating_system]
        hw_eff     == IF b.hot_water_electric_separate
                      THEN tables.HEATING_SYSTEM_EFFICIENCY["electric_direct"]
                      ELSE eff
    IN  [q_hotwater     |-> q_hotwater,
         final_heating  |-> Div(q_heating, eff),
         final_hotwater |-> Div(q_hotwater, hw_eff)]

\* CO2 with the heating system's factor applied to the hot water whatever
\* the flag.
core_co2_heating_factor(b, fin) ==
    Mul(fin.final_heating, tables.CO2_FACTOR[b.heating_system])
    + Mul(fin.final_hotwater, tables.CO2_FACTOR[b.heating_system])

\* CO2 of the final energy fin (lines 298-304).
core_co2(b, fin) ==
    LET co2_heating  == Mul(fin.final_heating, tables.CO2_FACTOR[b.heating_system])
        co2_hotwater == IF b.hot_water_electric_separate
                        THEN Mul(fin.final_hotwater, tables.CO2_FACTOR["electric_direct"])
                        ELSE Mul(fin.final_hotwater, tables.CO2_FACTOR[b.heating_system])
    IN  co2_heating + co2_hotwater

\* The HWBResult whose per-area values are the undivided totals when the
\* gross area is zero.
core_result_undivided_at_zero(geo, dem, fin, co2_total) ==
    LET gross_area  == geo.gross_area
        final_total == fin.final_heating + fin.final_hotwater
    IN  [floor_area              |-> gross_area,
         heated_volume           |-> geo.volume,
         envelope_area           |-> geo.envelope_area,
         transmission_heat_loss  |-> dem.l_t,
         ventilation_heat_loss   |-> dem.l_v,
         solar_gains             |-> dem.q_s,
         internal_gains          |-> dem.q_i,
         heating_demand_kwh      |-> dem.q_heating,
         hwb                     |-> IF gross_area > 0 THEN Div(dem.q_heating, gross_area) ELSE dem.q_heating,
         final_energy_kwh        |-> fin.final_heating,
         final_energy_kwh_per_m2 |-> IF gross_area > 0 THEN Div(fin.final_heating, gross_area) ELSE fin.final_heating,
         hot_water_kwh           |-> fin.q_hotwater,
         total_kwh_per_m2        |-> IF gross_area > 0 THEN Div(final_total, gross_area) ELSE final_total,
         co2_kg                  |-> co2_total,
         co2_kg_per_m2           |-> IF gross_area > 0 THEN Div(co2_total, gross_area) ELSE co2_total]

\* The HWBResult whose total leaves the hot water out.
core_result_heating_only(geo, dem, fin, co2_total) ==
    LET gross_area  == geo.gross_area
        final_total == fin.final_heating
    IN  [floor_area              |-> gross_area,
         heated_volume           |-> geo.volume,
         envelope_area           |-> geo.envelope_area,
         transmission_heat_loss  |-> dem.l_t,
         ventilation_heat_loss   |-> dem.l_v,
         solar_gains             |-> dem.q_s,
         internal_gains          |-> dem.q_i,
         heating_demand_kwh      |-> dem.q_heating,
         hwb                     |-> IF gross_area > 0 THEN Div(dem.q_heating, gross_area) ELSE 0,
         final_energy_kwh        |-> fin.final_heating,
         final_energy_kwh_per_m2 |-> IF gross_area > 0 THEN Div(fin.final_heating, gross_area) ELSE 0,
         hot_water_kwh           |-> fin.q_hotwater,
         total_kwh_per_m2        |-> IF gross_area > 0 THEN Div(final_total, gross_area) ELSE 0,
         co2_kg                  |-> co2_total,
         co2_kg_per_m2           |-> IF gross_area > 0 THEN Div(co2_total, gross_area) ELSE 0]

\* The HWBResult built from the intermediate values (lines 306-322).
core_result(geo, dem, fin, co2_total) ==
    LET gross_area  == geo.gross_area
        final_total == fin.final_heating + fin.final_hotwater
    IN  [floor_area              |-> gross_area,
         heated_volume           |-> geo.volume,
         envelope_area           |-> geo.envelope_area,
         transmission_heat_loss  |-> dem.l_t,
         ventilation_heat_loss   |-> dem.l_v,
         solar_gains             |-> dem.q_s,
         internal_gains          |-> dem.q_i,
         heating_demand_kwh      |-> dem.q_heating,
         hwb                     |-> IF gross_area > 0 THEN Div(dem.q_heating, gross_area) ELSE 0,
         final_energy_kwh        |-> fin.final_heating,
         final_energy_kwh_per_m2 |-> IF gross_area > 0 THEN Div(fin.final_heating, gross_area) ELSE 0,
         hot_water_kwh           |-> fin.q_hotwater,
         total_kwh_per_m2        |-> IF gross_area > 0 THEN Div(final_total, gross_area) ELSE 0,
         co2_kg                  |-> co2_total,
         co2_kg_per_m2           |-> IF gross_area > 0 THEN Div(co2_total, gross_area) ELSE 0]

core_from_final(b, geo, dem, fin) == core_result(geo, dem, fin, core_co2(b, fin))

core_from_demand(b, geo, dem) ==
    core_from_final(b, geo, dem, core_final_energy(b, dem.q_heating))

core_from_geometry(b, u, g, geo) ==
    core_from_demand(b, geo, core_demand(b, g, geo, core_transmission(u, geo)))

\* HWBCalculator._calculate_core: the sections in the order of the code,
\* each handing its values to the next.
calculate_core(b, u, g) == core_from_geometry(b, u, g, core_geometry(b))

---------------------------------------------------------------------------
(* calculator.py: the public API                                           *)

\* calculate reading the U-values of one fixed epoch.
calculate_fixed_u(b) ==
    LET u == tables.U_VALUES["before_1980"]
        g == tables.G_VALUES[b.construction_epoch]
    IN  calculate_core(b, u, g)

\* HWBCalculator.calculate
calculate(b) ==
    LET u == tables.U_VALUES[b.construction_epoch]
        g == tables.G_VALUES[b.construction_epoch]
    IN  calculate_core(b, u, g)

\* A retrofit that adds the layer's resistance to the U-value itself.
retrofit_u_values_added_to_u(original_u, r) ==
    LET wall == IF r.wall_insulation_cm > 0
                THEN original_u.AW + Div(Div(r.wall_insulation_cm, FromInt(100)), INSULATION_CONDUCTIVITY)
                ELSE original_u.AW
        roof == IF r.roof_insulation_cm > 0
                THEN original_u.OD + Div(Div(r.roof_insulation_cm, FromInt(100)), INSULATION_CONDUCTIVITY)
                ELSE original_u.OD
        win  == IF r.window_u_value > 0 THEN r.window_u_value ELSE original_u.FE
    IN  [original_u EXCEPT !.AW = wall, !.OD = roof, !.FE = win]

\* The U-value dict calculate_with_retrofit_uvalues hands to the core: the
\* entries of original_u after the three conditional assignments.
retrofit_u_values(original_u, r) ==
    LET wall == IF r.wall_insulation_cm > 0
                THEN LET r_added    == Div(Div(r.wall_insulation_cm, FromInt(100)), INSULATION_CONDUCTIVITY)
                         r_original == Div(FromInt(1), original_u.AW)
                     IN  Div(FromInt(1), r_original + r_added)
                ELSE original_u.AW
        roof == IF r.roof_insulation_cm > 0
                THEN LET r_added    == Div(Div(r.roof_insulation_cm, FromInt(100)), INSULATION_CONDUCTIVITY)
                         r_original == Div(FromInt(1), original_u.OD)
                     IN  Div(FromInt(1), r_original + r_added)
                ELSE original_u.OD
        win  == IF r.window_u_value > 0 THEN r.window_u_value ELSE original_u.FE
    IN  [original_u EXCEPT !.AW = wall, !.OD = roof, !.FE = win]

\* The module tables after a retrofit that assigns into U_VALUES[epoch]
\* itself instead of a copy.
tables_after_retrofit_in_place(b, r) ==
    [tables EXCEPT !.U_VALUES[b.construction_epoch] = retrofit_u_values(@, r)]

\* What calculate_with_retrofit_uvalues leaves in the module tables: it
\* writes to U_VALUES[epoch].copy(), a dict of its own.
tables_after_retrofit(b, r) == tables

\* calculate_with_retrofit_uvalues taking the g-value of the newest epoch
\* for the replaced windows.
calculate_with_retrofit_uvalues_new_glazing(b, r) ==
    LET original_u        == retrofit_u_values(tables.U_VALUES[b.construction_epoch], r)
        retrofit_building == apply_retrofit(b, r)
        g                 == tables.G_VALUES["after_2010"]
    IN  calculate_core(retrofit_building, original_u, g)

\* HWBCalculator.calculate_with_retrofit_uvalues
calculate_with_retrofit_uvalues(b, r) ==
    LET original_u        == retrofit_u_values(tables.U_VALUES[b.construction_epoch], r)
        retrofit_building == apply_retrofit(b, r)
        g                 == tables.G_VALUES[b.construction_epoch]
    IN  calculate_core(retrofit_building, original_u, g)

\* calculate_ber weighting the retrofit total with the primary-energy factor
\* of the original heating system.
calculate_ber_original_pef(b, r) ==
    LET hwb_result         == calculate(b)
        pef                == tables.PRIMARY_ENERGY_FACTOR[b.heating_system]
        primary_kwh_per_m2 == Mul(hwb_result.total_kwh_per_m2, pef)
        rating             == get_ber_band(primary_kwh_per_m2)
        base               == [ber_band            |-> rating[1],
                               kwh_per_m2          |-> round1(primary_kwh_per_m2),
                               color_hex           |-> rating[2],
                               hwb_result          |-> hwb_result,
                               building_input      |-> b,
                               retrofit_ber_band   |-> None,
                               retrofit_kwh_per_m2 |-> None,
                               retrofit_hwb_result |-> None]
    IN  IF ~IsNone(r)
        THEN LET retrofit_hwb     == calculate_with_retrofit_uvalues(b, Val(r))
                 retrofit_primary == Mul(retrofit_hwb.total_kwh_per_m2, pef)
                 r_rating         == get_ber_band(retrofit_primary)
             IN  [base EXCEPT !.retrofit_ber_band   = Some(r_rating[1]),
                              !.retrofit_kwh_per_m2 = Some(round1(retrofit_primary)),
                              !.retrofit_hwb_result = Some(retrofit_hwb)]
        ELSE base

\* HWBCalculator.calculate_ber; r is None or a RetrofitInput.
calculate_ber(b, r) ==
    LET hwb_result         == calculate(b)
        pef                == tables.PRIMARY_ENERGY_FACTOR[b.heating_system]
        primary_kwh_per_m2 == Mul(hwb_result.total_kwh_per_m2, pef)
        rating             == get_ber_band(primary_kwh_per_m2)
        base               == [ber_band            |-> rating[1],
                               kwh_per_m2          |-> round1(primary_kwh_per_m2),
                               color_hex           |-> rating[2],
                               hwb_result          |-> hwb_result,
                               building_input      |-> b,
                               retrofit_ber_band   |-> None,
                               retrofit_kwh_per_m2 |-> None,
                               retrofit_hwb_result |-> None]
    IN  IF ~IsNone(r)
        THEN LET retrofit_hwb      == calculate_with_retrofit_uvalues(b, Val(r))
                 retrofit_building == apply_retrofit(b, Val(r))
                 pef_r             == tables.PRIMARY_ENERGY_FACTOR[retrofit_building.heating_system]
                 retrofit_primary  == Mul(retrofit_hwb.total_kwh_per_m2, pef_r)
                 r_rating          == get_ber_band(retrofit_primary)
             IN  [base EXCEPT !.retrofit_ber_band   = Some(r_rating[1]),
                              !.retrofit_kwh_per_m2 = Some(round1(retrofit_primary)),
                              !.retrofit_hwb_result = Some(retrofit_hwb)]
        ELSE base

\* The table lookups of calculate(b) succeed (none raises KeyError).
calculate_lookups_ok(b) ==
    /\ b.construction_epoch \in DOMAIN tables.U_VALUES
    /\ b.construction_epoch \in DOMAIN tables.G_VALUES
    /\ (IsNone(b.window_door_areas) => b.building_type \in DOMAIN tables.WINDOW_AREA_FRACTION)
    /\ b.country \in DOMAIN tables.HEATING_DEGREE_DAYS
    /\ b.country \in DOMAIN tables.HEATING_DAYS
    /\ b.country \in DOMAIN tables.SOLAR_IRRADIANCE
    /\ b.heating_system \in DOMAIN tables.HEATING_SYSTEM_EFFICIENCY
    /\ b.heating_system \in DOMAIN tables.CO2_FACTOR
    /\ (b.hot_water_electric_separate =>
            /\ "electric_direct" \in DOMAIN tables.HEATING_SYSTEM_EFFICIENCY
            /\ "electric_direct" \in DOMAIN tables.CO2_FACTOR)

\* The table lookups of calculate_with_retrofit_uvalues(b, r) succeed.
retrofit_lookups_ok(b, r) == calculate_lookups_ok(apply_retrofit_data(b, r))

\* The table lookups of calculate_ber(b, r) succeed.
ber_lookups_ok(b, r) ==
    /\ calculate_lookups_ok(b)
    /\ b.heating_system \in DOMAIN tables.PRIMARY_ENERGY_FACTOR
    /\ (~IsNone(r) =>
            /\ retrofit_lookups_ok(b, Val(r))
            /\ apply_retrofit_data(b, Val(r)).heating_system \in DOMAIN tables.PRIMARY_ENERGY_FACTOR)

---------------------------------------------------------------------------
(* The inputs a caller builds                                              *)

MaxStoreys == 4

\* tests/conftest.py: typical_irish_house
typical_irish_house ==
    [length                      |-> FromInt(10),
     width                       |-> FromInt(8),
     heated_storeys              |-> 2,
     storey_height               |-> FromInt(3),
     building_type               |-> "detached",
     construction_epoch          |-> "before_1980",
     country                     |-> "ireland",
     quantity                    |-> 1,
     residents                   |-> None,
     window_door_areas           |-> None,
     heating_system              |-> "oil_boiler",
     hot_water_electric_separate |-> FALSE]

\* RetrofitInput with the given fields.
RetrofitInput(wall, roof, win, hs_after, hw_after) ==
    [wall_insulation_cm                |-> wall,
     roof_insulation_cm                |-> roof,
     window_u_value                    |-> win,
     heating_system_after              |-> hs_after,
     hot_water_electric_separate_after |-> hw_after]

WindowDoorAreas(n, e, s, w, d) ==
    [north |-> FromInt(n), east |-> FromInt(e), south |-> FromInt(s),
     west |-> FromInt(w), doors |-> FromInt(d)]

\* Footprints (length, width in m) and storey heights.
Footprints == {<<10, 8>>, <<25, 4>>, <<4, 25>>, <<1, 1>>}

StoreyHeights == {Dec(2, 10), Dec(27, 10), FromInt(3)}

\* Buildings over geometry, type, epoch and climate (derived windows and
\* residents, no retrofit).
GeometryInputs ==
    {<<[typical_irish_house EXCEPT
            !.length = FromInt(f[1]), !.width = FromInt(f[2]),
            !.heated_storeys = s, !.storey_height = h,
            !.building_type = t, !.construction_epoch = e, !.country = c,
            !.heating_system = "gas_boiler"], None>> :
        f \in Footprints, s \in 1..MaxStoreys, h \in StoreyHeights,
        t \in BuildingType, e \in ConstructionEpoch,
        c \in {"ireland", "france", "austria"}}

\* The typical house over every combination of enum values.
EnumInputs ==
    {<<[typical_irish_house EXCEPT
            !.building_type = t, !.construction_epoch = e, !.country = c,
            !.heating_system = hs], None>> :
        t \in BuildingType, e \in ConstructionEpoch, c \in Country, hs \in HeatingSystem}

\* The typical house with explicit residents and window areas.
ExplicitInputs ==
    {<<[typical_irish_house EXCEPT
            !.construction_epoch = e, !.residents = res, !.window_door_areas = wd], None>> :
        e \in {"before_1980", "after_2010"},
        res \in {None, Some(FromInt(4)), Some(0)},
        wd \in {None, Some(WindowDoorAreas(8, 8, 8, 8, 2)), Some(WindowDoorAreas(0, 0, 200, 0, 0))}}

\* The typical house over epoch, heating system and hot-water flag, with
\* every retrofit of RetrofitsFor.
RetrofitsFor(b) ==
    {Some(RetrofitInput(ins[1], ins[2], win, hsa, hwa)) :
        ins \in {<<0, 0>>, <<FromInt(12), FromInt(20)>>},
        win \in {FromInt(1), tables.U_VALUES[b.construction_epoch].FE},
        hsa \in {None, Some("heat_pump_air"), Some("electric_direct")},
        hwa \in BOOLEAN}

RetrofitBuildings ==
    {[typical_irish_house EXCEPT
            !.construction_epoch = e, !.heating_system = hs,
            !.hot_water_electric_separate = hw] :
        e \in {"before_1980", "after_2010"},
        hs \in {"oil_boiler", "gas_boiler", "heat_pump_air"},
        hw \in BOOLEAN}
    \cup
    {[typical_irish_house EXCEPT
            !.length = FromInt(fp[1]), !.width = FromInt(fp[2]),
            !.building_type = t, !.window_door_areas = wd] :
        fp \in {<<10, 8>>, <<30, 1>>},
        t \in {"detached", "semi_d_length", "terraced_length"},
        wd \in {None, Some(WindowDoorAreas(0, 0, 0, 0, 400))}}

---------------------------------------------------------------------------
(* The state machine: a caller holding a BuildingInput and an optional     *)
(* RetrofitInput calls the public API; result is what the last call        *)
(* returned, raised the exception it raised.                               *)

\* A house whose primary-energy intensity lies just above a band threshold:
\* 19 m x 5 m, otherwise the typical house.
BoundaryInputs ==
    {<<[typical_irish_house EXCEPT !.length = FromInt(19), !.width = FromInt(5)], None>>}

InitCommon ==
    /\ tables = ConstantTables
    /\ pipeline = None
    /\ kwh_arg = 0
    /\ threads = <<>>
    /\ kwargs = None
    /\ result = None
    /\ raised = "none"
    /\ lastCall = "none"

Init ==
    /\ InitCommon
    /\ \/ \E p \in GeometryInputs \cup EnumInputs \cup ExplicitInputs \cup BoundaryInputs :
            building = p[1] /\ retrofit = p[2]
       \/ \E b \in RetrofitBuildings : \E r \in RetrofitsFor(b) :
            building = b /\ retrofit = r

\* hwb = calculator.calculate(building)
Calculate ==
    /\ lastCall' = "calculate"
    /\ IF calculate_lookups_ok(building)
       THEN result' = Some(calculate(building)) /\ raised' = "none"
       ELSE result' = None /\ raised' = "KeyError"
    /\ UNCHANGED <<tables, building, retrofit, kwh_arg, threads, kwargs, pipeline>>

\* ber = calculator.calculate_ber(building, retrofit)
CalculateBer ==
    /\ lastCall' = "calculate_ber"
    /\ IF ber_lookups_ok(building, retrofit)
       THEN result' = Some(calculate_ber(building, retrofit)) /\ raised' = "none"
       ELSE result' = None /\ raised' = "KeyError"
    /\ tables' = IF IsNone(retrofit) THEN tables ELSE tables_after_retrofit(building, Val(retrofit))
    /\ building' = IF IsNone(retrofit) THEN building ELSE building_after_apply_retrofit(building, Val(retrofit))
    /\ UNCHANGED <<retrofit, kwh_arg, threads, kwargs, pipeline>>

\* hwb = calculator.calculate_with_retrofit_uvalues(building, retrofit)
CalculateWithRetrofitUvalues ==
    /\ ~IsNone(retrofit)
    /\ lastCall' = "calculate_with_retrofit_uvalues"
    /\ IF retrofit_lookups_ok(building, Val(retrofit))
       THEN result' = Some(calculate_with_retrofit_uvalues(building, Val(retrofit))) /\ raised' = "none"
       ELSE result' = None /\ raised' = "KeyError"
    /\ tables' = tables_after_retrofit(building, Val(retrofit))
    /\ building' = building_after_apply_retrofit(building, Val(retrofit))
    /\ UNCHANGED <<retrofit, kwh_arg, threads, kwargs, pipeline>>

Next == Calculate \/ CalculateBer \/ CalculateWithRetrofitUvalues

Spec == Init /\ [][Next]_vars


---------------------------------------------------------------------------
(* The rating classifier called on its own                                 *)

MaxKwhGrid == 100

\* Every multiple of 5 kWh/m2 from -20 to 5 * MaxKwhGrid, and the values one
\* resolution step on either side of each finite threshold.
KwhInputs ==
    {FromInt(5) * k : k \in -4..MaxKwhGrid}
    \cup {BER_BANDS[i][2] + d : i \in 1..(Len(BER_BANDS) - 1), d \in {-1, 1}}

InitRating ==
    /\ tables = ConstantTables
    /\ pipeline = None
    /\ building = typical_irish_house
    /\ retrofit = None
    /\ kwh_arg \in KwhInputs
    /\ threads = <<>>
    /\ kwargs = None
    /\ result = None
    /\ raised = "none"
    /\ lastCall = "none"

\* band, color = get_ber_band(kwh_arg)
GetBerBand ==
    /\ lastCall' = "get_ber_band"
    /\ result' = Some(get_ber_band(kwh_arg))
    /\ raised' = "none"
    /\ UNCHANGED <<tables, building, retrofit, kwh_arg, threads, kwargs, pipeline>>

NextRating == GetBerBand

SpecRating == InitRating /\ [][NextRating]_vars

---------------------------------------------------------------------------
(* C1 *)

\* The band table as the claim lists it: label and inclusive upper threshold
\* in kWh/m2, the last band unbounded.
ClaimedBands ==
    << <<"A1", 25>>, <<"A2", 50>>, <<"A3", 75>>, <<"B1", 100>>, <<"B2", 125>>,
       <<"B3", 150>>, <<"C1", 175>>, <<"C2", 200>>, <<"C3", 225>>, <<"D1", 260>>,
       <<"D2", 300>>, <<"E1", 340>>, <<"E2", 380>>, <<"F", 450>> >>

\* C1: get_ber_band(v) returns the label and color of the first entry of
\* BER_BANDS, in table order, whose threshold is >= v; a value equal to a
\* threshold gets that band, every v <= 25 (negative too) gets A1, every
\* v > 450 gets G, and the loop always matches (no fallback return).
C1_FirstBandAtOrAbove ==
    lastCall = "get_ber_band" =>
        /\ band_loop(kwh_arg, 1) # 0
        /\ \E i \in 1..Len(BER_BANDS) :
              /\ BER_BANDS[i][2] >= kwh_arg
              /\ \A j \in 1..(i - 1) : BER_BANDS[j][2] < kwh_arg
              /\ Val(result) = <<BER_BANDS[i][1], BER_BANDS[i][3]>>
        /\ \A i \in 1..Len(ClaimedBands) :
              /\ kwh_arg = FromInt(ClaimedBands[i][2]) => Val(result)[1] = ClaimedBands[i][1]
              /\ (kwh_arg <= FromInt(ClaimedBands[i][2])
                  /\ (i > 1 => kwh_arg > FromInt(ClaimedBands[i - 1][2])))
                    => Val(result)[1] = ClaimedBands[i][1]
        /\ kwh_arg <= FromInt(25) => Val(result)[1] = "A1"
        /\ kwh_arg > FromInt(450) => Val(result) = <<"G", "#4A1525">>

\* A value exactly at a threshold has been classified into that band, and a
\* negative value and a value above 450 have been classified.
C1_Witness ==
    /\ lastCall = "get_ber_band"
    /\ kwh_arg = FromInt(260)
    /\ Val(result) = <<"D1", "#ED1C24">>


---------------------------------------------------------------------------
(* C2 *)

\* The construction epochs from oldest to newest.
EpochOrder == <<"before_1980", "1980_1990", "1990_2000", "2000_2010", "after_2010">>

EpochIndex(e) == CHOOSE i \in 1..Len(EpochOrder) : EpochOrder[i] = e

\* The epochs newer than e.
NewerEpochs(e) == {n \in ConstructionEpoch : EpochIndex(n) > EpochIndex(e)}

\* The building that differs from b only in its construction epoch.
WithEpoch(b, e) == [b EXCEPT !.construction_epoch = e]

\* C2 as claimed: for every pair of valid buildings that differ only in
\* construction_epoch, calculate returns a strictly lower hwb for the newer.
C2_NewerEpochStrictlyLowerHwb ==
    (lastCall = "calculate" /\ raised = "none") =>
        \A n \in NewerEpochs(building.construction_epoch) :
            calculate(WithEpoch(building, n)).hwb < Val(result).hwb

\* C2 as amended: for detached and semi-detached buildings with derived
\* (default) window areas, the newer epoch's hwb is strictly lower, unless the
\* older epoch's demand is already clamped to 0, and then the newer is 0 too.
C2_NewerEpochLowerHwbUnshared ==
    (/\ lastCall = "calculate" /\ raised = "none"
     /\ building.building_type \in {"detached", "semi_d_length", "semi_d_width"}
     /\ IsNone(building.window_door_areas)) =>
        \A n \in NewerEpochs(building.construction_epoch) :
            LET newer == calculate(WithEpoch(building, n)).hwb
                older == Val(result).hwb
            IN  newer < older \/ (older = 0 /\ newer = 0)

\* calculate has run on the pre-1980 detached 10 m x 8 m house and the
\* after-2010 twin has a lower, positive hwb.
C2_Witness ==
    /\ lastCall = "calculate" /\ raised = "none"
    /\ building = [typical_irish_house EXCEPT !.heating_system = "gas_boiler"]
    /\ Val(result).hwb > FromInt(100)
    /\ calculate(WithEpoch(building, "after_2010")).hwb > 0
    /\ calculate(WithEpoch(building, "after_2010")).hwb < Val(result).hwb

---------------------------------------------------------------------------
(* C3 *)

\* The building that differs from b only in its building type.
WithType(b, t) == [b EXCEPT !.building_type = t]

transmission_of(b, t) == calculate(WithType(b, t)).transmission_heat_loss

\* C3: with derived window areas and the same dimensions, epoch and country,
\* the transmission heat loss of the detached building is strictly above the
\* semi-detached one's, which is strictly above the terraced one's, for the
\* length variants and for the width variants.
C3_SharedWallsLowerTransmission ==
    (/\ lastCall = "calculate" /\ raised = "none"
     /\ building.building_type = "detached"
     /\ IsNone(building.window_door_areas)) =>
        /\ Val(result).transmission_heat_loss
               > transmission_of(building, "semi_d_length")
        /\ transmission_of(building, "semi_d_length")
               > transmission_of(building, "terraced_length")
        /\ Val(result).transmission_heat_loss
               > transmission_of(building, "semi_d_width")
        /\ transmission_of(building, "semi_d_width")
               > transmission_of(building, "terraced_width")

\* calculate has run on a detached 25 m x 4 m building with derived windows,
\* whose terraced twins still lose heat through the envelope.
C3_Witness ==
    /\ lastCall = "calculate" /\ raised = "none"
    /\ building.building_type = "detached"
    /\ IsNone(building.window_door_areas)
    /\ building.length = FromInt(25) /\ building.width = FromInt(4)
    /\ Val(result).transmission_heat_loss
           > transmission_of(building, "semi_d_width")
    /\ transmission_of(building, "terraced_length") > 0

---------------------------------------------------------------------------
(* C4 *)

\* A retrofit that adds wall and roof insulation and a window U-value no
\* higher than the epoch's.
ImprovingRetrofit(b, r) ==
    /\ r.wall_insulation_cm > 0
    /\ r.roof_insulation_cm > 0
    /\ r.window_u_value <= tables.U_VALUES[b.construction_epoch].FE

---------------------------------------------------------------------------
(* C5, C6 *)

\* A retrofit that changes nothing it names: no insulation, the epoch's own
\* window U-value, no replacement heating system, the hot-water flag left at
\* its default.
NoOpRetrofit(b, r) ==
    /\ r.wall_insulation_cm = 0
    /\ r.roof_insulation_cm = 0
    /\ r.window_u_value = tables.U_VALUES[b.construction_epoch].FE
    /\ IsNone(r.heating_system_after)
    /\ r.hot_water_electric_separate_after = FALSE

\* C5: after calculate_ber with a no-op retrofit, whatever the building's
\* heating system and hot-water flag, the retrofit result equals the baseline
\* result field by field and the retrofit intensity and band equal the
\* baseline's.
C5_NoOpRetrofitReproducesBaseline ==
    (/\ lastCall = "calculate_ber" /\ raised = "none"
     /\ ~IsNone(retrofit)
     /\ NoOpRetrofit(building, Val(retrofit))) =>
        /\ Val(Val(result).retrofit_hwb_result) = Val(result).hwb_result
        /\ Val(Val(result).retrofit_kwh_per_m2) = Val(result).kwh_per_m2
        /\ Val(Val(result).retrofit_ber_band) = Val(result).ber_band

\* The building C6 says the retrofit calculation evaluates: the retrofit's
\* heating system when one is supplied, the hot-water flag switched on when
\* the retrofit sets it, and the original value otherwise.
OverrideElseKeep(b, r) ==
    [b EXCEPT
        !.heating_system = IF ~IsNone(r.heating_system_after)
                           THEN Val(r.heating_system_after)
                           ELSE @,
        !.hot_water_electric_separate =
            IF r.hot_water_electric_separate_after THEN TRUE ELSE @]

\* C6: calculate_with_retrofit_uvalues returns what the core returns on the
\* building whose heating system and hot-water flag follow the retrofit's
\* override when present and keep the original otherwise.
C6_RetrofitOverrideElseKeep ==
    (lastCall = "calculate_with_retrofit_uvalues" /\ raised = "none") =>
        Val(result) =
            calculate_core(OverrideElseKeep(building, Val(retrofit)),
                           retrofit_u_values(tables.U_VALUES[building.construction_epoch],
                                             Val(retrofit)),
                           tables.G_VALUES[building.construction_epoch])

---------------------------------------------------------------------------
(* C7 *)

\* C7: for every valid BuildingInput, with any optional residents and
\* window areas, calculate returns no negative area, volume, loss, gain,
\* demand, energy or emission figure.
C7_NonNegativeOutputs ==
    (lastCall = "calculate" /\ raised = "none" /\ ValidBuildingInput(building)) =>
        LET r == Val(result)
        IN  /\ r.floor_area >= 0
            /\ r.heated_volume >= 0
            /\ r.envelope_area >= 0
            /\ r.transmission_heat_loss >= 0
            /\ r.ventilation_heat_loss >= 0
            /\ r.solar_gains >= 0
            /\ r.internal_gains >= 0
            /\ r.heating_demand_kwh >= 0
            /\ r.hwb >= 0
            /\ r.final_energy_kwh >= 0
            /\ r.hot_water_kwh >= 0
            /\ r.total_kwh_per_m2 >= 0
            /\ r.co2_kg >= 0

---------------------------------------------------------------------------
(* C8 *)

\* C8: every enum member is a key of each table it indexes, so no call
\* fails on a lookup, and calculate_ber returns kwh_per_m2 > 0 whenever the
\* number of residents is derived from the floor area or given as positive.
C8_TablesCompleteAndPositive ==
    /\ \A e \in ConstructionEpoch :
            e \in DOMAIN tables.U_VALUES /\ e \in DOMAIN tables.G_VALUES
    /\ \A c \in Country :
            /\ c \in DOMAIN tables.HEATING_DEGREE_DAYS
            /\ c \in DOMAIN tables.HEATING_DAYS
            /\ c \in DOMAIN tables.SOLAR_IRRADIANCE
    /\ \A h \in HeatingSystem :
            /\ h \in DOMAIN tables.HEATING_SYSTEM_EFFICIENCY
            /\ h \in DOMAIN tables.PRIMARY_ENERGY_FACTOR
            /\ h \in DOMAIN tables.CO2_FACTOR
    /\ \A t \in BuildingType : t \in DOMAIN tables.WINDOW_AREA_FRACTION
    /\ raised = "none"
    /\ (lastCall = "calculate_ber" /\ effective_residents(building) > 0) =>
            Val(result).kwh_per_m2 > 0

\* calculate_ber has run on a district-heated house in Austria built in the
\* 1990s and returned a positive intensity.
C8_Witness ==
    /\ lastCall = "calculate_ber" /\ raised = "none"
    /\ building.heating_system = "district_heating"
    /\ building.country = "austria"
    /\ building.construction_epoch = "1990_2000"
    /\ Val(result).kwh_per_m2 > 0

---------------------------------------------------------------------------
(* C9 *)

\* C9: after calculate_ber, the reported baseline intensity is the core
\* total times the primary-energy factor of the building's heating system
\* (to one decimal) and band and colour are get_ber_band of that product;
\* with a retrofit the three retrofit fields are set, from the retrofit
\* result's total times the factor of the heating system after substitution;
\* without one all three are None.
C9_BerOrchestration ==
    (lastCall = "calculate_ber" /\ raised = "none") =>
        LET res     == Val(result)
            primary == Mul(res.hwb_result.total_kwh_per_m2,
                           tables.PRIMARY_ENERGY_FACTOR[building.heating_system])
        IN  /\ res.hwb_result = calculate(building)
            /\ res.kwh_per_m2 = round1(primary)
            /\ <<res.ber_band, res.color_hex>> = get_ber_band(primary)
            /\ IF IsNone(retrofit)
               THEN /\ IsNone(res.retrofit_ber_band)
                    /\ IsNone(res.retrofit_kwh_per_m2)
                    /\ IsNone(res.retrofit_hwb_result)
               ELSE LET r      == Val(retrofit)
                        hs     == IF IsNone(r.heating_system_after)
                                  THEN building.heating_system
                                  ELSE Val(r.heating_system_after)
                        rhwb   == calculate_with_retrofit_uvalues(building, r)
                        rprim  == Mul(rhwb.total_kwh_per_m2,
                                      tables.PRIMARY_ENERGY_FACTOR[hs])
                    IN  /\ res.retrofit_hwb_result = Some(rhwb)
                        /\ res.retrofit_kwh_per_m2 = Some(round1(rprim))
                        /\ res.retrofit_ber_band = Some(get_ber_band(rprim)[1])

\* calculate_ber has run on the oil-heated house with a retrofit that
\* switches to an air-source heat pump, and all three retrofit fields are
\* set.
C9_Witness ==
    /\ lastCall = "calculate_ber" /\ raised = "none"
    /\ building = typical_irish_house
    /\ ~IsNone(retrofit)
    /\ Val(retrofit).heating_system_after = Some("heat_pump_air")
    /\ Val(retrofit).wall_insulation_cm > 0
    /\ ~IsNone(Val(result).retrofit_ber_band)
    /\ ~IsNone(Val(result).retrofit_kwh_per_m2)
    /\ ~IsNone(Val(result).retrofit_hwb_result)

---------------------------------------------------------------------------
(* C10 *)

\* C10: no call changes a constant table or the BuildingInput and
\* RetrofitInput the caller passed.
C10_NoMutation ==
    [][/\ tables' = ConstantTables
       /\ building' = building
       /\ retrofit' = retrofit]_vars

\* calculate_with_retrofit_uvalues has run with wall and roof insulation and
\* a heating-system substitution, and U_VALUES still holds the epoch's wall
\* U-value.
C10_Witness ==
    /\ lastCall = "calculate_with_retrofit_uvalues" /\ raised = "none"
    /\ Val(retrofit).wall_insulation_cm > 0
    /\ ~IsNone(Val(retrofit).heating_system_after)
    /\ Val(result).transmission_heat_loss
           < calculate(building).transmission_heat_loss
    /\ tables.U_VALUES[building.construction_epoch].AW
           = U_VALUES[building.construction_epoch].AW

---------------------------------------------------------------------------
(* Several calculate_ber calls in flight on the shared tables. Each thread *)
(* has its own frame: the arguments, the locals of calculate_ber and of    *)
(* calculate_with_retrofit_uvalues, and the position in the code.          *)

MaxThreads == 2

Threads == 1..MaxThreads

\* The arguments a thread may be started with.
ThreadInputs ==
    {<<b, r>> :
        b \in {typical_irish_house,
               [typical_irish_house EXCEPT !.construction_epoch = "after_2010",
                                           !.heating_system = "gas_boiler"]},
        r \in {None,
               Some(RetrofitInput(FromInt(12), FromInt(20), FromInt(1),
                                  Some("heat_pump_air"), FALSE))}}

\* A frame on entry to calculate_ber(b, r).
Frame(b, r) ==
    [pc           |-> "calculate",
     building     |-> b,
     retrofit     |-> r,
     hwb_result   |-> None,
     result       |-> None,
     original_u   |-> None,
     retrofit_hwb |-> None,
     ret          |-> None]

InitConcurrent ==
    /\ tables = ConstantTables
    /\ pipeline = None
    /\ kwh_arg = 0
    /\ kwargs = None
    /\ result = None
    /\ raised = "none"
    /\ lastCall = "none"
    /\ building = typical_irish_house
    /\ retrofit = None
    /\ threads \in [Threads -> {Frame(p[1], p[2]) : p \in ThreadInputs}]

\* The BERResult of lines 96-102 for the baseline result hwb_result.
ber_baseline(b, hwb_result) ==
    LET pef                == tables.PRIMARY_ENERGY_FACTOR[b.heating_system]
        primary_kwh_per_m2 == Mul(hwb_result.total_kwh_per_m2, pef)
    IN  [ber_band            |-> get_ber_band(primary_kwh_per_m2)[1],
         kwh_per_m2          |-> round1(primary_kwh_per_m2),
         color_hex           |-> get_ber_band(primary_kwh_per_m2)[2],
         hwb_result          |-> hwb_result,
         building_input      |-> b,
         retrofit_ber_band   |-> None,
         retrofit_kwh_per_m2 |-> None,
         retrofit_hwb_result |-> None]

\* result after lines 105-112 for the retrofit result retrofit_hwb.
ber_with_retrofit(result_, b, r, retrofit_hwb) ==
    LET pef_r            == tables.PRIMARY_ENERGY_FACTOR[apply_retrofit(b, r).heating_system]
        retrofit_primary == Mul(retrofit_hwb.total_kwh_per_m2, pef_r)
    IN  [result_ EXCEPT !.retrofit_ber_band   = Some(get_ber_band(retrofit_primary)[1]),
                        !.retrofit_kwh_per_m2 = Some(round1(retrofit_primary)),
                        !.retrofit_hwb_result = Some(retrofit_hwb)]

\* hwb_result = self.calculate(building)
ThreadCalculate(t) ==
    /\ threads[t].pc = "calculate"
    /\ threads' = [threads EXCEPT
            ![t].hwb_result = Some(calculate(threads[t].building)),
            ![t].pc = "classify"]
    /\ UNCHANGED <<tables, building, retrofit, kwh_arg, result, raised, lastCall, kwargs, pipeline>>

\* pef ... result = BERResult(...); if retrofit:
ThreadClassify(t) ==
    /\ threads[t].pc = "classify"
    /\ threads' = [threads EXCEPT
            ![t].result = Some(ber_baseline(threads[t].building, Val(threads[t].hwb_result))),
            ![t].pc = IF IsNone(threads[t].retrofit) THEN "return" ELSE "copy_u"]
    /\ UNCHANGED <<tables, building, retrofit, kwh_arg, result, raised, lastCall, kwargs, pipeline>>

\* calculate_with_retrofit_uvalues: original_u = U_VALUES[epoch].copy() and
\* the three conditional assignments to it.
ThreadCopyU(t) ==
    /\ threads[t].pc = "copy_u"
    /\ threads' = [threads EXCEPT
            ![t].original_u =
                Some(retrofit_u_values(tables.U_VALUES[threads[t].building.construction_epoch],
                                       Val(threads[t].retrofit))),
            ![t].pc = "retrofit_core"]
    /\ tables' = tables_after_retrofit(threads[t].building, Val(threads[t].retrofit))
    /\ UNCHANGED <<building, retrofit, kwh_arg, result, raised, lastCall, kwargs, pipeline>>

\* retrofit_building = self._apply_retrofit(...); g = G_VALUES[...];
\* return self._calculate_core(retrofit_building, original_u, g)
ThreadRetrofitCore(t) ==
    /\ threads[t].pc = "retrofit_core"
    /\ threads' = [threads EXCEPT
            ![t].retrofit_hwb =
                Some(calculate_core(apply_retrofit(threads[t].building, Val(threads[t].retrofit)),
                                    Val(threads[t].original_u),
                                    tables.G_VALUES[threads[t].building.construction_epoch])),
            ![t].pc = "retrofit_classify"]
    /\ UNCHANGED <<tables, building, retrofit, kwh_arg, result, raised, lastCall, kwargs, pipeline>>

\* retrofit_building ... result.retrofit_hwb_result = retrofit_hwb
ThreadRetrofitClassify(t) ==
    /\ threads[t].pc = "retrofit_classify"
    /\ threads' = [threads EXCEPT
            ![t].result = Some(ber_with_retrofit(Val(threads[t].result), threads[t].building,
                                                 Val(threads[t].retrofit),
                                                 Val(threads[t].retrofit_hwb))),
            ![t].pc = "return"]
    /\ UNCHANGED <<tables, building, retrofit, kwh_arg, result, raised, lastCall, kwargs, pipeline>>

\* return result
ThreadReturn(t) ==
    /\ threads[t].pc = "return"
    /\ threads' = [threads EXCEPT ![t].ret = threads[t].result, ![t].pc = "done"]
    /\ UNCHANGED <<tables, building, retrofit, kwh_arg, result, raised, lastCall, kwargs, pipeline>>

NextConcurrent ==
    \E t \in Threads :
        \/ ThreadCalculate(t)
        \/ ThreadClassify(t)
        \/ ThreadCopyU(t)
        \/ ThreadRetrofitCore(t)
        \/ ThreadRetrofitClassify(t)
        \/ ThreadReturn(t)

SpecConcurrent == InitConcurrent /\ [][NextConcurrent]_vars

---------------------------------------------------------------------------
(* C11 *)

\* C11: in every interleaving of the calls, a call that has returned has
\* returned what calculate_ber returns on its arguments when run alone, and
\* two returned calls with equal arguments have equal results.
C11_ConcurrentCallsIndependent ==
    /\ \A t \in Threads :
            threads[t].pc = "done" =>
                threads[t].ret = Some(calculate_ber(threads[t].building, threads[t].retrofit))
    /\ \A t1, t2 \in Threads :
            (/\ threads[t1].pc = "done" /\ threads[t2].pc = "done"
             /\ threads[t1].building = threads[t2].building
             /\ threads[t1].retrofit = threads[t2].retrofit) =>
                threads[t1].ret = threads[t2].ret

\* Two calls on the same pre-1980 house have both returned, one with a
\* retrofit and one without.
C11_Witness ==
    /\ threads[1].pc = "done" /\ threads[2].pc = "done"
    /\ threads[1].building = threads[2].building
    /\ threads[1].building.construction_epoch = "before_1980"
    /\ ~IsNone(threads[1].retrofit) /\ IsNone(threads[2].retrofit)
    /\ ~IsNone(Val(threads[1].ret).retrofit_hwb_result)
    /\ Val(threads[2].ret).kwh_per_m2 = Val(threads[1].ret).kwh_per_m2

---------------------------------------------------------------------------
(* C12 *)

\* Q_t + Q_v - Q_i - Q_s recomputed from the fields of an HWBResult for a
\* building in country c.
NetDemand(res, c) ==
    LET hdd == tables.HEATING_DEGREE_DAYS[c]
    IN  Mul(Mul(HDD_TO_KWH_FACTOR, res.transmission_heat_loss), hdd)
        + Mul(Mul(HDD_TO_KWH_FACTOR, res.ventilation_heat_loss), hdd)
        - res.internal_gains - res.solar_gains

\* C12: calculate raises nothing and returns
\* heating_demand_kwh = max(0, Q_t + Q_v - Q_i - Q_s), so that
\* heating_demand_kwh, hwb and final_energy_kwh are >= 0, also when the gains
\* exceed the losses.
C12_DemandClampedAtZero ==
    lastCall = "calculate" =>
        /\ raised = "none"
        /\ Val(result).heating_demand_kwh
               = Max(0, NetDemand(Val(result), building.country))
        /\ Val(result).heating_demand_kwh >= 0
        /\ Val(result).hwb >= 0
        /\ Val(result).final_energy_kwh >= 0

\* calculate has run on a house with 200 m2 of south glazing, whose gains
\* exceed its losses, and returned a zero demand.
C12_Witness ==
    /\ lastCall = "calculate" /\ raised = "none"
    /\ ~IsNone(building.window_door_areas)
    /\ Val(building.window_door_areas).south = FromInt(200)
    /\ NetDemand(Val(result), building.country) < 0
    /\ Val(result).heating_demand_kwh = 0
    /\ Val(result).hwb = 0

---------------------------------------------------------------------------
(* C13 *)

Combustion == {"oil_boiler", "gas_boiler", "biomass"}

HeatPumps == {"heat_pump_air", "heat_pump_ground", "heat_pump_water"}

\* The building that differs from b only in its heating system.
WithHeating(b, hs) == [b EXCEPT !.heating_system = hs]

\* C13: when calculate has run on a building with a combustion system, the
\* twin with a heat pump has the same heating_demand_kwh and, whenever that
\* demand is positive, a strictly lower final_energy_kwh.
C13_HeatPumpLowerFinalEnergy ==
    (/\ lastCall = "calculate" /\ raised = "none"
     /\ building.heating_system \in Combustion) =>
        \A hp \in HeatPumps :
            LET twin == calculate(WithHeating(building, hp))
            IN  /\ twin.heating_demand_kwh = Val(result).heating_demand_kwh
                /\ (Val(result).heating_demand_kwh > 0 =>
                        twin.final_energy_kwh < Val(result).final_energy_kwh)

\* calculate has run on the oil-heated house, with a positive demand, and
\* the air-source twin needs less than a third of its final energy.
C13_Witness ==
    /\ lastCall = "calculate" /\ raised = "none"
    /\ building = typical_irish_house
    /\ Val(result).heating_demand_kwh > 0
    /\ 3 * calculate(WithHeating(building, "heat_pump_air")).final_energy_kwh
           < Val(result).final_energy_kwh

---------------------------------------------------------------------------
(* C14 *)

\* residents x 40 x 365 x (4.2 / 3600) x 45 for n residents.
ClaimedHotWater(n) ==
    Mul(MulDiv(Mul(n, FromInt(40)) * 365, 42, 36000), FromInt(45))

\* The residents of b when given, else max(1, length x width x storeys / 52).
ClaimedResidents(b) ==
    IF IsNone(b.residents)
    THEN Max(FromInt(1), Div(Mul(b.length, b.width) * b.heated_storeys, FromInt(52)))
    ELSE Val(b.residents)

\* The HWBResults held by the value a call returned.
ReturnedHwbResults ==
    IF IsNone(result) \/ lastCall \notin {"calculate", "calculate_ber", "calculate_with_retrofit_uvalues"}
    THEN {}
    ELSE IF lastCall = "calculate_ber"
         THEN {Val(result).hwb_result}
              \cup (IF IsNone(Val(result).retrofit_hwb_result)
                    THEN {}
                    ELSE {Val(Val(result).retrofit_hwb_result)})
         ELSE {Val(result)}

\* C14: every HWBResult returned for a building, baseline or retrofit, of
\* whatever epoch, type, country and heating system, has
\* hot_water_kwh = effective residents x 40 x 365 x (4.2/3600) x 45, which is
\* 766.5 kWh per resident within 0.1 kWh; absent residents are
\* max(1, length x width x heated_storeys / 52).
C14_HotWaterDependsOnResidentsOnly ==
    \A res \in ReturnedHwbResults :
        /\ res.hot_water_kwh = ClaimedHotWater(ClaimedResidents(building))
        /\ Abs(res.hot_water_kwh - Mul(ClaimedResidents(building), Dec(7665, 10)))
               <= SCALE \div 10

\* calculate has run on a 1 m x 1 m single-storey building without explicit
\* residents, whose area gives fewer than one resident, and the hot water is
\* that of one resident.
C14_Witness ==
    /\ lastCall = "calculate" /\ raised = "none"
    /\ IsNone(building.residents)
    /\ Mul(building.length, building.width) * building.heated_storeys < FromInt(52)
    /\ Val(result).hot_water_kwh = ClaimedHotWater(FromInt(1))
    /\ Val(result).hot_water_kwh > FromInt(766)

---------------------------------------------------------------------------
(* C15 *)

\* The system that heats the water of b.
HotWaterSystem(b) ==
    IF b.hot_water_electric_separate THEN "electric_direct" ELSE b.heating_system

\* C15: after calculate, the total holds hot_water_kwh divided by the
\* efficiency of ELECTRIC_DIRECT when hot_water_electric_separate is set and of
\* the heating system otherwise, co2_kg holds it with the CO2 factor of the
\* same system, and final_energy_kwh is what the building with the other value
\* of the flag gets.
C15_SeparateElectricHotWater ==
    (lastCall = "calculate" /\ raised = "none") =>
        LET res            == Val(result)
            hw             == HotWaterSystem(building)
            final_hotwater == Div(res.hot_water_kwh, ConstantTables.HEATING_SYSTEM_EFFICIENCY[hw])
            flipped        == [building EXCEPT !.hot_water_electric_separate = ~@]
        IN  /\ res.total_kwh_per_m2
                   = Div(res.final_energy_kwh + final_hotwater, res.floor_area)
            /\ res.co2_kg
                   = Mul(res.final_energy_kwh, ConstantTables.CO2_FACTOR[building.heating_system])
                     + Mul(final_hotwater, ConstantTables.CO2_FACTOR[hw])
            /\ calculate(flipped).final_energy_kwh = res.final_energy_kwh

\* calculate has run on a gas-heated house with separate electric hot water,
\* and its CO2 differs from that of the house without the flag.
C15_Witness ==
    /\ lastCall = "calculate" /\ raised = "none"
    /\ building.hot_water_electric_separate
    /\ building.heating_system = "gas_boiler"
    /\ Val(result).co2_kg
           # calculate([building EXCEPT !.hot_water_electric_separate = FALSE]).co2_kg

---------------------------------------------------------------------------
(* C16 *)

\* C16 as stated: for every valid building hot_water_kwh > 0 and
\* total_kwh_per_m2 > hwb.
C16_HotWaterIncluded ==
    (lastCall = "calculate" /\ raised = "none" /\ ValidBuildingInput(building)) =>
        /\ Val(result).hot_water_kwh > 0
        /\ Val(result).total_kwh_per_m2 > Val(result).hwb

\* C16: for every valid building, hot_water_kwh > 0 when the effective
\* residents are positive, and then total_kwh_per_m2 > hwb when the efficiency
\* of the heating system is at most 1.
C16_HotWaterIncludedUpToUnitEfficiency ==
    (lastCall = "calculate" /\ raised = "none" /\ ValidBuildingInput(building)) =>
        /\ ClaimedResidents(building) > 0 => Val(result).hot_water_kwh > 0
        /\ (/\ Val(result).hot_water_kwh > 0
            /\ ConstantTables.HEATING_SYSTEM_EFFICIENCY[building.heating_system] <= FromInt(1)) =>
                Val(result).total_kwh_per_m2 > Val(result).hwb

\* calculate has run on the oil-heated house, which has hot water and a total
\* above its hwb, while its air-source twin has a total below its hwb.
C16_Witness ==
    /\ lastCall = "calculate" /\ raised = "none"
    /\ building = typical_irish_house
    /\ Val(result).hot_water_kwh > 0
    /\ Val(result).total_kwh_per_m2 > Val(result).hwb
    /\ LET twin == calculate(WithHeating(building, "heat_pump_air"))
       IN  twin.total_kwh_per_m2 < twin.hwb

---------------------------------------------------------------------------
(* C17 *)

\* The labels of the rating bands from best to worst.
BandOrder ==
    [i \in 1..(Len(ClaimedBands) + 1) |->
        IF i <= Len(ClaimedBands) THEN ClaimedBands[i][1] ELSE "G"]

BandIndex(band) == CHOOSE i \in DOMAIN BandOrder : BandOrder[i] = band

\* 12 cm of wall and 20 cm of roof insulation, windows of U = 1.0 and an
\* air-source heat pump.
FullRetrofit ==
    RetrofitInput(FromInt(12), FromInt(20), FromInt(1), Some("heat_pump_air"), FALSE)

\* C17: calculate_ber on the typical house with the full retrofit returns a
\* retrofit_kwh_per_m2 strictly below kwh_per_m2 and a retrofit_ber_band at
\* or before ber_band in the band order.
C17_FullRetrofitImprovesTypicalHouse ==
    (/\ lastCall = "calculate_ber"
     /\ building = typical_irish_house
     /\ retrofit = Some(FullRetrofit)) =>
        /\ raised = "none"
        /\ ~IsNone(Val(result).retrofit_kwh_per_m2)
        /\ Val(Val(result).retrofit_kwh_per_m2) < Val(result).kwh_per_m2
        /\ BandIndex(Val(Val(result).retrofit_ber_band)) <= BandIndex(Val(result).ber_band)

\* calculate_ber has run on the typical house with the full retrofit: the
\* baseline is 188.0 kWh/m2 in band C2, the retrofit 34.1 kWh/m2 in band A2.
C17_Witness ==
    /\ lastCall = "calculate_ber" /\ raised = "none"
    /\ building = typical_irish_house
    /\ retrofit = Some(FullRetrofit)
    /\ Val(result).kwh_per_m2 = FromInt(188)
    /\ Val(result).ber_band = "C2"
    /\ Val(result).retrofit_kwh_per_m2 = Some(Dec(341, 10))
    /\ Val(result).retrofit_ber_band = Some("A2")

---------------------------------------------------------------------------
(* C18 *)

\* C18: calculate on the typical house (detached, 10 m x 8 m, 2 storeys of
\* 3.0 m, before 1980, Ireland, oil boiler, no residents or window areas
\* given) returns floor_area = 160, heated_volume within 0.1 of 678.4,
\* hwb > 100 and positive transmission_heat_loss, ventilation_heat_loss,
\* co2_kg and co2_kg_per_m2.
C18_TypicalHouseBaseline ==
    (lastCall = "calculate" /\ building = typical_irish_house) =>
        /\ raised = "none"
        /\ Val(result).floor_area = FromInt(160)
        /\ Abs(Val(result).heated_volume - Dec(6784, 10)) < Dec(1, 10)
        /\ Val(result).hwb > FromInt(100)
        /\ Val(result).transmission_heat_loss > 0
        /\ Val(result).ventilation_heat_loss > 0
        /\ Val(result).co2_kg > 0
        /\ Val(result).co2_kg_per_m2 > 0

\* calculate has run on the typical house, whose inputs are those of the
\* fixture, and returned a result.
C18_Witness ==
    /\ lastCall = "calculate" /\ raised = "none"
    /\ building = typical_irish_house
    /\ building.length = FromInt(10) /\ building.width = FromInt(8)
    /\ building.heated_storeys = 2 /\ building.storey_height = FromInt(3)
    /\ building.building_type = "detached"
    /\ building.construction_epoch = "before_1980"
    /\ building.country = "ireland"
    /\ building.heating_system = "oil_boiler"
    /\ IsNone(building.residents) /\ IsNone(building.window_door_areas)
    /\ Val(result).floor_area = FromInt(160)
    /\ Val(result).hwb > FromInt(130)

---------------------------------------------------------------------------
(* C20 *)

\* C20: in every BERResult with a retrofit, the retrofit HWBResult has the
\* floor_area, heated_volume, envelope_area, ventilation_heat_loss,
\* internal_gains, solar_gains and hot_water_kwh of the baseline HWBResult, and
\* the U-values handed to the core keep the floor U-value of the building's
\* epoch.
C20_RetrofitFrame ==
    (lastCall = "calculate_ber" /\ raised = "none" /\ ~IsNone(retrofit)) =>
        LET base  == Val(result).hwb_result
            after == Val(Val(result).retrofit_hwb_result)
            epoch == building.construction_epoch
        IN  /\ after.floor_area = base.floor_area
            /\ after.heated_volume = base.heated_volume
            /\ after.envelope_area = base.envelope_area
            /\ after.ventilation_heat_loss = base.ventilation_heat_loss
            /\ after.internal_gains = base.internal_gains
            /\ after.solar_gains = base.solar_gains
            /\ after.hot_water_kwh = base.hot_water_kwh
            /\ retrofit_u_values(tables.U_VALUES[epoch], Val(retrofit)).KD
                   = ConstantTables.U_VALUES[epoch].KD

\* calculate_ber has run with the full retrofit on a house built before 1980:
\* the transmission loss and the final energy changed, the solar gains are
\* positive and unchanged.
C20_Witness ==
    /\ lastCall = "calculate_ber" /\ raised = "none"
    /\ retrofit = Some(FullRetrofit)
    /\ building.construction_epoch = "before_1980"
    /\ LET base  == Val(result).hwb_result
           after == Val(Val(result).retrofit_hwb_result)
       IN  /\ after.transmission_heat_loss < base.transmission_heat_loss
           /\ after.final_energy_kwh < base.final_energy_kwh
           /\ base.solar_gains > 0
           /\ after.solar_gains = base.solar_gains

---------------------------------------------------------------------------
(* Construction of the BuildingInput, then the calculator                  *)

MaxLength == 10

\* Keyword arguments for BuildingInput: those of the typical house with the
\* four geometry fields drawn from values below, at and above their limits.
ConstructInputs ==
    {[typical_irish_house EXCEPT !.length = FromInt(l), !.width = FromInt(w),
                                 !.storey_height = h, !.heated_storeys = s] :
        l \in {-1, 0, MaxLength},
        w \in {-1, 0, 8},
        h \in {-SCALE, 0, FromInt(3)},
        s \in {-1, 0, 1, 2}}

InitConstruct ==
    /\ tables = ConstantTables
    /\ pipeline = None
    /\ kwh_arg = 0
    /\ threads = <<>>
    /\ kwargs \in ConstructInputs
    /\ building = None
    /\ retrofit \in {None, Some(RetrofitInput(FromInt(12), FromInt(20), FromInt(1), Some("heat_pump_air"), FALSE))}
    /\ result = None
    /\ raised = "none"
    /\ lastCall = "none"

\* building = BuildingInput(**kwargs)
Construct ==
    /\ lastCall = "none"
    /\ lastCall' = "BuildingInput"
    /\ IF ValidBuildingInput(kwargs)
       THEN building' = kwargs /\ raised' = "none"
       ELSE building' = building /\ raised' = "ValidationError"
    /\ UNCHANGED <<tables, retrofit, kwh_arg, result, threads, kwargs, pipeline>>

\* The calculator is called with the BuildingInput once there is one.
ConstructedCalculate == ~IsNone(building) /\ Calculate

ConstructedCalculateBer == ~IsNone(building) /\ CalculateBer

ConstructedCalculateWithRetrofitUvalues ==
    ~IsNone(building) /\ CalculateWithRetrofitUvalues

NextConstruct ==
    \/ Construct
    \/ ConstructedCalculate
    \/ ConstructedCalculateBer
    \/ ConstructedCalculateWithRetrofitUvalues

SpecConstruct == InitConstruct /\ [][NextConstruct]_vars

---------------------------------------------------------------------------
(* C19 *)

\* length <= 0, width <= 0, storey_height <= 0 or heated_storeys < 1.
InvalidGeometry(data) ==
    \/ data.length <= 0
    \/ data.width <= 0
    \/ data.storey_height <= 0
    \/ data.heated_storeys < 1

\* C19: building a BuildingInput from arguments with invalid geometry raises
\* a validation error and leaves no BuildingInput; every BuildingInput there is,
\* and so every one the calculator is called with, has valid geometry, and so
\* has the one _apply_retrofit rebuilds from it.
C19_InvalidGeometryRejected ==
    /\ (lastCall # "none" /\ InvalidGeometry(kwargs)) =>
            /\ IsNone(building)
            /\ raised = "ValidationError"
            /\ lastCall = "BuildingInput"
            /\ IsNone(result)
    /\ ~IsNone(building) =>
            /\ ~InvalidGeometry(building)
            /\ ~IsNone(retrofit) =>
                    ~InvalidGeometry(apply_retrofit_data(building, Val(retrofit)))

\* A construction with a zero length has been rejected.
C19_Witness ==
    /\ lastCall = "BuildingInput"
    /\ kwargs.length = 0 /\ kwargs.width > 0
    /\ kwargs.storey_height > 0 /\ kwargs.heated_storeys >= 1
    /\ raised = "ValidationError"
    /\ IsNone(building)

---------------------------------------------------------------------------
(* C21 *)

\* 1 / (1/U_old + (insulation_cm/100)/0.035).
ClaimedInsulatedU(u_old, insulation_cm) ==
    Div(FromInt(1),
        Div(FromInt(1), u_old) + Div(Div(insulation_cm, FromInt(100)), Dec(35, 1000)))

\* C21: the U-values calculate_with_retrofit_uvalues hands to the core have,
\* for wall and roof, U_new = 1 / (1/U_old + (cm/100)/0.035) for a positive
\* thickness, then 0 < U_new < U_old, and U_new = U_old for thickness 0; the
\* window value is retrofit.window_u_value itself.
C21_RetrofitUValues ==
    (/\ lastCall \in {"calculate_with_retrofit_uvalues", "calculate_ber"}
     /\ raised = "none" /\ ~IsNone(retrofit)) =>
        LET r     == Val(retrofit)
            u_old == ConstantTables.U_VALUES[building.construction_epoch]
            u_new == retrofit_u_values(tables.U_VALUES[building.construction_epoch], r)
        IN  /\ IF r.wall_insulation_cm > 0
               THEN /\ u_new.AW = ClaimedInsulatedU(u_old.AW, r.wall_insulation_cm)
                    /\ u_new.AW < u_old.AW
                    /\ u_new.AW > 0
               ELSE u_new.AW = u_old.AW
            /\ IF r.roof_insulation_cm > 0
               THEN /\ u_new.OD = ClaimedInsulatedU(u_old.OD, r.roof_insulation_cm)
                    /\ u_new.OD < u_old.OD
                    /\ u_new.OD > 0
               ELSE u_new.OD = u_old.OD
            /\ u_new.FE = r.window_u_value

\* calculate_with_retrofit_uvalues has run with 12 cm on the walls of a house
\* built before 1980 and a window value that differs from the epoch's: the
\* wall value fell and the window value is the retrofit's.
C21_Witness ==
    /\ lastCall = "calculate_with_retrofit_uvalues" /\ raised = "none"
    /\ building.construction_epoch = "before_1980"
    /\ Val(retrofit).wall_insulation_cm = FromInt(12)
    /\ Val(retrofit).window_u_value # ConstantTables.U_VALUES["before_1980"].FE
    /\ LET u_new == retrofit_u_values(tables.U_VALUES["before_1980"], Val(retrofit))
       IN  /\ u_new.AW < ConstantTables.U_VALUES["before_1980"].AW
           /\ u_new.FE = Val(retrofit).window_u_value

---------------------------------------------------------------------------
(* C22 *)

\* L_e of building b with the U-values of its epoch.
ClaimedLe(b) ==
    LET u   == ConstantTables.U_VALUES[b.construction_epoch]
        geo == core_geometry(b)
    IN  Mul(u.FE, geo.win_door_total) + Mul(u.OD, geo.roof_area)
        + Mul(Mul(u.KD, geo.floor_area), Dec(7, 10)) + Mul(u.AW, geo.external_walls)

\* A_window + A_roof + A_floor + A_external_wall of building b.
ClaimedTotalArea(b) ==
    LET geo == core_geometry(b)
    IN  geo.win_door_total + geo.roof_area + geo.floor_area + geo.external_walls

\* A geometry whose areas are all zero.
ZeroAreaGeometry ==
    [core_geometry(typical_irish_house) EXCEPT
        !.win_door_total = 0, !.roof_area = 0, !.floor_area = 0, !.external_walls = 0]

\* C22: after calculate, transmission_heat_loss = L_e + L_psi with
\* L_psi = max(0.2 x (0.75 - U_mean) x L_e, 0) and U_mean = L_e / summed area;
\* it is >= L_e, equals L_e when U_mean >= 0.75, and with a summed area of
\* zero L_psi is 0 and nothing is divided.
C22_ThermalBridgeSupplement ==
    /\ (lastCall = "calculate" /\ raised = "none") =>
            LET l_e    == ClaimedLe(building)
                area   == ClaimedTotalArea(building)
                l_t    == Val(result).transmission_heat_loss
            IN  /\ l_t >= l_e
                /\ area > 0 =>
                    /\ l_t = l_e + Max(Mul(Mul(Dec(2, 10), Dec(75, 100) - Div(l_e, area)), l_e), 0)
                    /\ Div(l_e, area) >= Dec(75, 100) => l_t = l_e
    /\ core_transmission(tables.U_VALUES[building.construction_epoch], ZeroAreaGeometry) = 0

\* calculate has run on a house built after 2010, whose mean U-value is below
\* 0.75, and the supplement is positive.
C22_Witness ==
    /\ lastCall = "calculate" /\ raised = "none"
    /\ building.construction_epoch = "after_2010"
    /\ ClaimedTotalArea(building) > 0
    /\ Div(ClaimedLe(building), ClaimedTotalArea(building)) < Dec(75, 100)
    /\ Val(result).transmission_heat_loss > ClaimedLe(building)

---------------------------------------------------------------------------
(* C23 *)

\* C23: after calculate, floor_area = length x width x heated_storeys,
\* heated_volume = 0.8 x floor_area x (storey_height - 0.35) x heated_storeys,
\* which is 0.8 x length x width x heated_storeys^2 x (storey_height - 0.35),
\* and the roof and the ground floor are length x width whatever the storeys.
C23_StoreysAppliedTwiceInVolume ==
    (lastCall = "calculate" /\ raised = "none") =>
        LET b         == building
            footprint == Mul(b.length, b.width)
            height    == b.storey_height - Dec(35, 100)
            geo       == core_geometry(b)
        IN  /\ Val(result).floor_area = footprint * b.heated_storeys
            /\ Val(result).heated_volume
                   = Mul(Mul(Val(result).floor_area, Dec(8, 10)), height) * b.heated_storeys
            /\ Abs(Val(result).heated_volume
                   - Mul(Mul(footprint, Dec(8, 10)), height) * b.heated_storeys * b.heated_storeys)
                   <= SCALE \div 10
            /\ geo.roof_area = footprint
            /\ geo.floor_area = footprint

\* calculate has run on a 10 m x 8 m building of three storeys of 3.0 m:
\* the volume is 0.8 x 80 x 9 x 2.65 = 1526.4 and the roof is 80.
C23_Witness ==
    /\ lastCall = "calculate" /\ raised = "none"
    /\ building.length = FromInt(10) /\ building.width = FromInt(8)
    /\ building.heated_storeys = 3 /\ building.storey_height = FromInt(3)
    /\ Val(result).floor_area = FromInt(240)
    /\ Val(result).heated_volume = Dec(15264, 10)
    /\ core_geometry(building).roof_area = FromInt(80)

---------------------------------------------------------------------------
(* The core calculation run on its own                                     *)

\* Buildings handed to _calculate_core without validation: the typical house
\* with a length or a width of zero, or neither.
CoreInputs ==
    {[typical_irish_house EXCEPT !.length = FromInt(l), !.width = FromInt(w),
                                 !.heated_storeys = s, !.building_type = t,
                                 !.construction_epoch = e, !.heating_system = hs] :
        l \in {0, 10}, w \in {0, 8}, s \in 1..2,
        t \in BuildingType, e \in {"before_1980", "after_2010"},
        hs \in {"oil_boiler", "heat_pump_air"}}

InitCore ==
    /\ tables = ConstantTables
    /\ pipeline = None
    /\ kwh_arg = 0
    /\ threads = <<>>
    /\ kwargs = None
    /\ building \in CoreInputs
    /\ retrofit = None
    /\ result = None
    /\ raised = "none"
    /\ lastCall = "none"

\* hwb = calculator._calculate_core(building, U_VALUES[epoch], G_VALUES[epoch])
CalculateCore ==
    /\ lastCall' = "_calculate_core"
    /\ result' = Some(calculate_core(building,
                                     tables.U_VALUES[building.construction_epoch],
                                     tables.G_VALUES[building.construction_epoch]))
    /\ raised' = "none"
    /\ UNCHANGED <<tables, building, retrofit, kwh_arg, threads, kwargs, pipeline>>

NextCore == CalculateCore

SpecCore == InitCore /\ [][NextCore]_vars

---------------------------------------------------------------------------
(* C24 *)

\* C24: _calculate_core run on a building whose gross floor area is 0
\* returns hwb, final_energy_kwh_per_m2, total_kwh_per_m2 and co2_kg_per_m2
\* equal to 0 and raises nothing.
C24_ZeroAreaGuard ==
    (/\ lastCall = "_calculate_core"
     /\ Mul(building.length, building.width) * building.heated_storeys = 0) =>
        /\ raised = "none"
        /\ Val(result).floor_area = 0
        /\ Val(result).hwb = 0
        /\ Val(result).final_energy_kwh_per_m2 = 0
        /\ Val(result).total_kwh_per_m2 = 0
        /\ Val(result).co2_kg_per_m2 = 0

\* _calculate_core has run on a building 0 m long and 8 m wide: the area is
\* 0, the walls still lose heat, and the per-area values are 0.
C24_Witness ==
    /\ lastCall = "_calculate_core" /\ raised = "none"
    /\ building.length = 0 /\ building.width = FromInt(8)
    /\ Val(result).floor_area = 0
    /\ Val(result).heating_demand_kwh > 0
    /\ Val(result).co2_kg > 0
    /\ Val(result).hwb = 0
    /\ Val(result).co2_kg_per_m2 = 0

---------------------------------------------------------------------------
(* models.py: FootprintResult; pipeline.py: _reconcile_footprints          *)

\* FootprintResult with the defaults of contour_points and building_shape.
FootprintResult(length_m, width_m, area_m2, confidence, source) ==
    [length_m       |-> length_m,
     width_m        |-> width_m,
     area_m2        |-> area_m2,
     confidence     |-> confidence,
     contour_points |-> <<>>,
     source         |-> source,
     building_shape |-> "rectangular"]

\* _reconcile_footprints returning Claude's result unboosted when the two
\* agree.
reconcile_footprints_without_boost(claude_fp, opencv_fp) ==
    LET claude_ok == ~IsNone(claude_fp) /\ Val(claude_fp).confidence >= Dec(4, 10)
        opencv_ok == ~IsNone(opencv_fp) /\ Val(opencv_fp).confidence >= Dec(15, 100)
    IN  IF claude_ok THEN claude_fp
        ELSE IF opencv_ok THEN opencv_fp
        ELSE LET claude_c == ~IsNone(claude_fp) /\ Val(claude_fp).confidence > 0
                 opencv_c == ~IsNone(opencv_fp) /\ Val(opencv_fp).confidence > 0
             IN  IF claude_c /\ opencv_c
                 THEN IF Val(opencv_fp).confidence > Val(claude_fp).confidence
                      THEN opencv_fp ELSE claude_fp
                 ELSE IF claude_c THEN claude_fp
                 ELSE IF opencv_c THEN opencv_fp
                 ELSE None

\* BERPipeline._reconcile_footprints; the arguments and the value returned
\* are None or a FootprintResult. diff / avg_area < 0.30 is compared exactly,
\* as 200 * diff < 30 * (a1 + a2).
reconcile_footprints(claude_fp, opencv_fp) ==
    LET claude_ok == ~IsNone(claude_fp) /\ Val(claude_fp).confidence >= Dec(4, 10)
        opencv_ok == ~IsNone(opencv_fp) /\ Val(opencv_fp).confidence >= Dec(15, 100)
    IN  IF claude_ok /\ opencv_ok
        THEN LET area_sum  == Val(claude_fp).area_m2 + Val(opencv_fp).area_m2
                 diff      == Abs(Val(claude_fp).area_m2 - Val(opencv_fp).area_m2)
                 agreement == IF area_sum > 0 THEN 200 * diff < 30 * area_sum ELSE FALSE
             IN  IF agreement
                 THEN LET boosted == Min(FromInt(1), Val(claude_fp).confidence + Dec(15, 100))
                      IN  Some(FootprintResult(Val(claude_fp).length_m,
                                               Val(claude_fp).width_m,
                                               Val(claude_fp).area_m2,
                                               round2(boosted),
                                               "claude_vision"))
                 ELSE claude_fp
        ELSE IF claude_ok THEN claude_fp
        ELSE IF opencv_ok THEN opencv_fp
        ELSE LET claude_c == ~IsNone(claude_fp) /\ Val(claude_fp).confidence > 0
                 opencv_c == ~IsNone(opencv_fp) /\ Val(opencv_fp).confidence > 0
             IN  IF claude_c /\ opencv_c
                 THEN IF Val(opencv_fp).confidence > Val(claude_fp).confidence
                      THEN opencv_fp ELSE claude_fp
                 ELSE IF claude_c THEN claude_fp
                 ELSE IF opencv_c THEN opencv_fp
                 ELSE None

\* Footprints of Claude Vision: confidences on both sides of 0.4, one with
\* three decimals, one that the boost takes above 1.
ClaudeFootprints ==
    {None} \cup
    {Some(FootprintResult(FromInt(d[1]), FromInt(d[2]), FromInt(d[3]), c, "claude_vision")) :
        d \in {<<10, 8, 80>>, <<23, 5, 115>>, <<0, 0, 0>>},
        c \in {0, Dec(1, 10), Dec(399, 1000), Dec(4, 10), Dec(456, 1000), Dec(7, 10), Dec(9, 10)}}

\* Footprints of OpenCV: confidences on both sides of 0.15; areas that agree
\* with Claude's, that differ by exactly 30 % of the mean, and that disagree.
OpencvFootprints ==
    {None} \cup
    {Some(FootprintResult(FromInt(d[1]), FromInt(d[2]), FromInt(d[3]), c, "opencv")) :
        d \in {<<11, 8, 88>>, <<17, 5, 85>>, <<20, 15, 300>>, <<0, 0, 0>>},
        c \in {0, Dec(1, 10), Dec(15, 100), Dec(3, 10), Dec(5, 10)}}

InitReconcile ==
    /\ tables = ConstantTables
    /\ pipeline = None
    /\ kwh_arg = 0
    /\ threads = <<>>
    /\ \E c \in ClaudeFootprints, o \in OpencvFootprints :
            kwargs = [claude_fp |-> c, opencv_fp |-> o]
    /\ building = typical_irish_house
    /\ retrofit = None
    /\ result = None
    /\ raised = "none"
    /\ lastCall = "none"

\* footprint = BERPipeline._reconcile_footprints(claude_fp, opencv_fp)
ReconcileFootprints ==
    /\ lastCall' = "_reconcile_footprints"
    /\ result' = Some(reconcile_footprints(kwargs.claude_fp, kwargs.opencv_fp))
    /\ raised' = "none"
    /\ UNCHANGED <<tables, building, retrofit, kwh_arg, threads, kwargs, pipeline>>

NextReconcile == ReconcileFootprints

SpecReconcile == InitReconcile /\ [][NextReconcile]_vars

---------------------------------------------------------------------------
(* C25 *)

ClaudeUsable == ~IsNone(kwargs.claude_fp) /\ Val(kwargs.claude_fp).confidence >= Dec(4, 10)

OpencvUsable == ~IsNone(kwargs.opencv_fp) /\ Val(kwargs.opencv_fp).confidence >= Dec(15, 100)

\* |area difference| / mean area < 0.30 for the two footprints given.
AreasAgree ==
    LET a1 == Val(kwargs.claude_fp).area_m2
        a2 == Val(kwargs.opencv_fp).area_m2
    IN  a1 + a2 > 0 /\ 200 * Abs(a1 - a2) < 30 * (a1 + a2)

\* The footprints given that have a positive confidence.
PositiveCandidates ==
    {fp \in {kwargs.claude_fp, kwargs.opencv_fp} : ~IsNone(fp) /\ Val(fp).confidence > 0}

\* What C25 says of the value returned, with the confidence of case (a)
\* passed through conf(_).
ReconcileAsClaimed(ret, conf(_)) ==
    IF ClaudeUsable /\ OpencvUsable /\ AreasAgree
    THEN /\ ~IsNone(ret)
         /\ Val(ret).length_m = Val(kwargs.claude_fp).length_m
         /\ Val(ret).width_m = Val(kwargs.claude_fp).width_m
         /\ Val(ret).area_m2 = Val(kwargs.claude_fp).area_m2
         /\ Val(ret).source = "claude_vision"
         /\ Val(ret).confidence = conf(Min(FromInt(1), Val(kwargs.claude_fp).confidence + Dec(15, 100)))
    ELSE IF ClaudeUsable THEN ret = kwargs.claude_fp
    ELSE IF OpencvUsable THEN ret = kwargs.opencv_fp
    ELSE IF IsNone(kwargs.claude_fp) /\ IsNone(kwargs.opencv_fp) THEN IsNone(ret)
    ELSE IF PositiveCandidates = {} THEN IsNone(ret)
    ELSE /\ ret \in PositiveCandidates
         /\ \A fp \in PositiveCandidates : Val(fp).confidence <= Val(ret).confidence

Unrounded(c) == c

\* C25 as stated: in case (a) the confidence is min(1.0, confidence + 0.15).
C25_ReconcileFootprints ==
    lastCall = "_reconcile_footprints" => ReconcileAsClaimed(Val(result), Unrounded)

\* C25: _reconcile_footprints returns (a) Claude's dimensions with source
\* claude_vision and confidence min(1.0, confidence + 0.15) rounded to two
\* decimals when both are usable and the areas agree within 30 %; (b) Claude's
\* result when both are usable and disagree or only Claude is usable; (c) the
\* OpenCV result when only OpenCV is usable; (d) None when both are None, else
\* the positive-confidence candidate of highest confidence, or None.
C25_ReconcileFootprintsRounded ==
    lastCall = "_reconcile_footprints" => ReconcileAsClaimed(Val(result), round2)

\* The two footprints are usable and agree, Claude's confidence is 0.456,
\* and the result has confidence 0.61.
C25_Witness ==
    /\ lastCall = "_reconcile_footprints"
    /\ ClaudeUsable /\ OpencvUsable /\ AreasAgree
    /\ Val(kwargs.claude_fp).confidence = Dec(456, 1000)
    /\ Val(Val(result)).confidence = Dec(61, 100)
    /\ Val(Val(result)).source = "claude_vision"

---------------------------------------------------------------------------
(* models.py: StreetViewAnalysis; pipeline.py: _build_input                *)

\* The field defaults of StreetViewAnalysis; its fields are these and no
\* others.
StreetViewAnalysisDefaults ==
    [construction_epoch   |-> "before_1980",
     building_type        |-> "detached",
     estimated_storeys    |-> 2,
     heating_system_guess |-> "gas_boiler",
     adjacent_side        |-> "length",
     confidence           |-> Dec(5, 10),
     reasoning            |-> ""]

\* StreetViewAnalysis(**data): pydantic keeps the keyword arguments that are
\* fields of the model, drops the others, and fills in the defaults.
StreetViewAnalysis(data) ==
    [f \in DOMAIN StreetViewAnalysisDefaults |->
        IF f \in DOMAIN data THEN data[f] ELSE StreetViewAnalysisDefaults[f]]

\* The field defaults of BuildingInput (length and width have none).
BuildingInputDefaults ==
    [heated_storeys              |-> 2,
     storey_height               |-> FromInt(3),
     building_type               |-> "detached",
     construction_epoch          |-> "before_1980",
     country                     |-> "ireland",
     quantity                    |-> 1,
     residents                   |-> None,
     window_door_areas           |-> None,
     heating_system              |-> "gas_boiler",
     hot_water_electric_separate |-> FALSE]

\* The params dict of _build_input with the overrides laid under the values
\* derived from the footprint and the street analysis.
build_input_params_overrides_first(presult, overrides) ==
    LET fp   == presult.footprint
        dims == IF ~IsNone(fp) /\ Val(fp).confidence >= Dec(4, 10)
                THEN LET length == Max(FromInt(4), Min(FromInt(25), Val(fp).length_m))
                         width  == Max(FromInt(4), Min(FromInt(25), Val(fp).width_m))
                         area   == Mul(length, width)
                     IN  IF FromInt(20) <= area /\ area <= FromInt(500)
                         THEN [length |-> length, width |-> width]
                         ELSE [length |-> FromInt(10), width |-> FromInt(8)]
                ELSE [length |-> FromInt(10), width |-> FromInt(8)]
        sa   == presult.street_analysis
        cls  == IF ~IsNone(sa) /\ Val(sa).confidence >= Dec(4, 10)
                THEN [building_type      |-> Val(sa).building_type,
                      construction_epoch |-> Val(sa).construction_epoch,
                      heated_storeys     |-> Val(sa).estimated_storeys,
                      heating_system     |-> Val(sa).heating_system_guess] @@ dims
                ELSE dims
    IN  IF ~IsNone(overrides) THEN cls @@ Val(overrides) ELSE cls

\* The params dict _build_input hands to BuildingInput (lines 272-302);
\* presult is the PipelineResult, overrides None or a dict.
build_input_params(presult, overrides) ==
    LET fp   == presult.footprint
        dims == IF ~IsNone(fp) /\ Val(fp).confidence >= Dec(4, 10)
                THEN LET length == Max(FromInt(4), Min(FromInt(25), Val(fp).length_m))
                         width  == Max(FromInt(4), Min(FromInt(25), Val(fp).width_m))
                         area   == Mul(length, width)
                     IN  IF FromInt(20) <= area /\ area <= FromInt(500)
                         THEN [length |-> length, width |-> width]
                         ELSE [length |-> FromInt(10), width |-> FromInt(8)]
                ELSE [length |-> FromInt(10), width |-> FromInt(8)]
        sa   == presult.street_analysis
        cls  == IF ~IsNone(sa) /\ Val(sa).confidence >= Dec(4, 10)
                THEN [building_type      |-> Val(sa).building_type,
                      construction_epoch |-> Val(sa).construction_epoch,
                      heated_storeys     |-> Val(sa).estimated_storeys,
                      heating_system     |-> Val(sa).heating_system_guess] @@ dims
                ELSE dims
    IN  IF ~IsNone(overrides) THEN Val(overrides) @@ cls ELSE cls

\* BuildingInput(**params) before validation: the arguments and the defaults
\* of the fields not given.
BuildingInputData(params) == params @@ BuildingInputDefaults

\* Footprints in and out of the clamp [4, 25] and the area window [20, 500].
BuildFootprints ==
    {None} \cup
    {Some(FootprintResult(FromInt(d[1]), FromInt(d[2]), FromInt(d[1] * d[2]), c, "claude_vision")) :
        d \in {<<12, 9>>, <<30, 2>>, <<3, 3>>, <<3, 6>>, <<25, 25>>, <<25, 20>>, <<5, 4>>},
        c \in {Dec(399, 1000), Dec(4, 10), Dec(8, 10)}}

\* Street analyses on both sides of the confidence 0.4, one with no storey.
BuildAnalyses ==
    {None} \cup
    {Some(StreetViewAnalysis([construction_epoch   |-> "after_2010",
                              building_type        |-> "terraced_length",
                              estimated_storeys    |-> n,
                              heating_system_guess |-> "heat_pump_air",
                              confidence           |-> c])) :
        n \in {0, 1, 3}, c \in {Dec(399, 1000), Dec(4, 10), Dec(7, 10)}}

BuildOverrides ==
    {None,
     Some([heating_system |-> "oil_boiler"]),
     Some([length |-> FromInt(15), width |-> FromInt(10), building_type |-> "semi_d_width"]),
     Some([heated_storeys |-> 2, construction_epoch |-> "1990_2000"])}

InitBuildInput ==
    /\ tables = ConstantTables
    /\ pipeline = None
    /\ kwh_arg = 0
    /\ threads = <<>>
    /\ \E fp \in BuildFootprints, sa \in BuildAnalyses, ov \in BuildOverrides :
            kwargs = [result    |-> [footprint |-> fp, street_analysis |-> sa],
                      overrides |-> ov]
    /\ building = typical_irish_house
    /\ retrofit = None
    /\ result = None
    /\ raised = "none"
    /\ lastCall = "none"

\* building_input = self._build_input(result, overrides)
BuildInput ==
    /\ lastCall' = "_build_input"
    /\ LET data == BuildingInputData(build_input_params(kwargs.result, kwargs.overrides))
       IN  IF ValidBuildingInput(data)
           THEN result' = Some(data) /\ raised' = "none"
           ELSE result' = None /\ raised' = "ValidationError"
    /\ UNCHANGED <<tables, building, retrofit, kwh_arg, threads, kwargs, pipeline>>

NextBuildInput == BuildInput

SpecBuildInput == InitBuildInput /\ [][NextBuildInput]_vars

---------------------------------------------------------------------------
(* C26 *)

\* The value of BuildingInput field f that C26 gives: the override when
\* there is one, else the derived value.
OverrideElse(f, derived) ==
    IF ~IsNone(kwargs.overrides) /\ f \in DOMAIN Val(kwargs.overrides)
    THEN Val(kwargs.overrides)[f]
    ELSE derived

Clamp(x) == Max(FromInt(4), Min(FromInt(25), x))

\* The footprint is used: confidence >= 0.4 and clamped area in [20, 500].
FootprintUsed ==
    LET fp == kwargs.result.footprint
    IN  /\ ~IsNone(fp)
        /\ Val(fp).confidence >= Dec(4, 10)
        /\ Mul(Clamp(Val(fp).length_m), Clamp(Val(fp).width_m)) >= FromInt(20)
        /\ Mul(Clamp(Val(fp).length_m), Clamp(Val(fp).width_m)) <= FromInt(500)

AnalysisUsed ==
    /\ ~IsNone(kwargs.result.street_analysis)
    /\ Val(kwargs.result.street_analysis).confidence >= Dec(4, 10)

\* C26: the BuildingInput _build_input returns has the clamped length and
\* width of the footprint when the footprint is used and 10.0 x 8.0 otherwise;
\* building_type, construction_epoch, heated_storeys and heating_system of the
\* street analysis when its confidence is >= 0.4 and the model defaults
\* otherwise; and for every overridden field the override.
C26_BuildInputAssembly ==
    (lastCall = "_build_input" /\ raised = "none") =>
        LET b  == Val(result)
            fp == Val(kwargs.result.footprint)
            sa == Val(kwargs.result.street_analysis)
        IN  /\ b.length = OverrideElse("length",
                    IF FootprintUsed THEN Clamp(fp.length_m) ELSE FromInt(10))
            /\ b.width = OverrideElse("width",
                    IF FootprintUsed THEN Clamp(fp.width_m) ELSE FromInt(8))
            /\ b.building_type = OverrideElse("building_type",
                    IF AnalysisUsed THEN sa.building_type ELSE "detached")
            /\ b.construction_epoch = OverrideElse("construction_epoch",
                    IF AnalysisUsed THEN sa.construction_epoch ELSE "before_1980")
            /\ b.heated_storeys = OverrideElse("heated_storeys",
                    IF AnalysisUsed THEN sa.estimated_storeys ELSE 2)
            /\ b.heating_system = OverrideElse("heating_system",
                    IF AnalysisUsed THEN sa.heating_system_guess ELSE "gas_boiler")

\* _build_input has run with a 30 m x 2 m footprint of confidence 0.8, a
\* street analysis of confidence 0.7 and an override of the heating system:
\* the dimensions are clamped to 25 x 4, the type is the analysis's and the
\* heating system the override's.
C26_Witness ==
    /\ lastCall = "_build_input" /\ raised = "none"
    /\ FootprintUsed /\ AnalysisUsed
    /\ Val(kwargs.result.footprint).length_m = FromInt(30)
    /\ kwargs.overrides = Some([heating_system |-> "oil_boiler"])
    /\ Val(result).length = FromInt(25) /\ Val(result).width = FromInt(4)
    /\ Val(result).building_type = "terraced_length"
    /\ Val(result).heating_system = "oil_boiler"

---------------------------------------------------------------------------
(* pipeline.py: _correct_terrace_footprint                                 *)

\* Reading attribute name of a pydantic model raises AttributeError when the
\* model has no such field.
HasAttribute(obj, name) == name \in DOMAIN obj

\* The value _correct_terrace_footprint returns once both attributes of
\* street_analysis have been read (lines 224-264).
correct_terrace_footprint(footprint, street_analysis) ==
    LET btype == street_analysis.building_type
        units == street_analysis.estimated_units_in_row
    IN  IF units <= 1 THEN footprint
        ELSE IF btype \notin {"terraced_length", "terraced_width", "semi_d_length", "semi_d_width"}
        THEN footprint
        ELSE IF footprint.confidence < Dec(4, 10) THEN footprint
        ELSE LET per_unit == IF btype \in {"terraced_length", "semi_d_length"}
                             THEN footprint.width_m \div units
                             ELSE footprint.length_m \div units
             IN  IF per_unit < FromInt(4) THEN footprint
                 ELSE LET length == IF btype \in {"terraced_length", "semi_d_length"}
                                    THEN footprint.length_m ELSE round1(per_unit)
                          width  == IF btype \in {"terraced_length", "semi_d_length"}
                                    THEN round1(per_unit) ELSE footprint.width_m
                      IN  [footprint EXCEPT
                              !.length_m   = length,
                              !.width_m    = width,
                              !.area_m2    = round1(Mul(length, width)),
                              !.confidence = round2(Max(Dec(3, 10), footprint.confidence - Dec(1, 10)))]

\* The exception _correct_terrace_footprint raises, or "none" (lines 221-222).
correct_terrace_raises(street_analysis) ==
    IF ~HasAttribute(street_analysis, "building_type") THEN "AttributeError"
    ELSE IF ~HasAttribute(street_analysis, "estimated_units_in_row") THEN "AttributeError"
    ELSE "none"

MaxUnits == 4

TerraceFootprints ==
    {FootprintResult(FromInt(d[1]), FromInt(d[2]), FromInt(d[1] * d[2]), c, "claude_vision") :
        d \in {<<12, 24>>, <<24, 8>>, <<12, 12>>, <<10, 16>>},
        c \in {Dec(3, 10), Dec(45, 100), Dec(7, 10)}}

\* Keyword arguments with which analyze_streetview and the tests build the
\* StreetViewAnalysis.
TerraceAnalysisKwargs ==
    {[building_type          |-> t,
      estimated_units_in_row |-> n,
      adjacent_side          |-> "length",
      confidence             |-> Dec(7, 10)] :
        t \in BuildingType, n \in 1..MaxUnits}

InitTerrace ==
    /\ tables = ConstantTables
    /\ pipeline = None
    /\ kwh_arg = 0
    /\ threads = <<>>
    /\ \E fp \in TerraceFootprints, sa \in TerraceAnalysisKwargs :
            kwargs = [footprint |-> fp, street_analysis |-> sa]
    /\ building = typical_irish_house
    /\ retrofit = None
    /\ result = None
    /\ raised = "none"
    /\ lastCall = "none"

\* footprint = BERPipeline._correct_terrace_footprint(
\*     footprint, StreetViewAnalysis(**street_analysis))
CorrectTerraceFootprint ==
    /\ lastCall' = "_correct_terrace_footprint"
    /\ LET sa == StreetViewAnalysis(kwargs.street_analysis)
       IN  IF correct_terrace_raises(sa) = "none"
           THEN /\ result' = Some(correct_terrace_footprint(kwargs.footprint, sa))
                /\ raised' = "none"
           ELSE /\ result' = None
                /\ raised' = correct_terrace_raises(sa)
    /\ UNCHANGED <<tables, building, retrofit, kwh_arg, threads, kwargs, pipeline>>

NextTerrace == CorrectTerraceFootprint

SpecTerrace == InitTerrace /\ [][NextTerrace]_vars

---------------------------------------------------------------------------
(* C27 *)

\* C27: _correct_terrace_footprint, given a StreetViewAnalysis built with
\* estimated_units_in_row = n, returns the footprint with the repeating
\* dimension divided by n, the area recomputed and the confidence lowered by
\* 0.1 (not below 0.3) when n > 1, the type is terraced or semi-d, the
\* confidence is >= 0.4 and the per-unit dimension is >= 4.0 m, and returns the
\* footprint unchanged in every other case.
C27_TerraceCorrection ==
    lastCall = "_correct_terrace_footprint" =>
        LET fp       == kwargs.footprint
            n        == kwargs.street_analysis.estimated_units_in_row
            btype    == kwargs.street_analysis.building_type
            on_width == btype \in {"terraced_length", "semi_d_length"}
            per_unit == IF on_width THEN fp.width_m \div n ELSE fp.length_m \div n
        IN  /\ raised = "none"
            /\ ~IsNone(result)
            /\ IF /\ n > 1 /\ btype # "detached"
                  /\ fp.confidence >= Dec(4, 10) /\ per_unit >= FromInt(4)
               THEN /\ Val(result).width_m = IF on_width THEN round1(per_unit) ELSE fp.width_m
                    /\ Val(result).length_m = IF on_width THEN fp.length_m ELSE round1(per_unit)
                    /\ Val(result).area_m2 = round1(Mul(Val(result).length_m, Val(result).width_m))
                    /\ Val(result).confidence = round2(Max(Dec(3, 10), fp.confidence - Dec(1, 10)))
               ELSE Val(result) = fp

---------------------------------------------------------------------------
(* pipeline.py: BERPipeline.run                                            *)

\* PipelineResult(eircode=eircode).
PipelineResult ==
    [coordinates           |-> None,
     satellite_image_path  |-> None,
     streetview_image_path |-> None,
     footprint             |-> None,
     street_analysis       |-> None,
     ber_result            |-> None,
     errors                |-> <<>>]

\* What analyze_streetview can return: the StreetViewAnalysis it builds from
\* the parsed reply, estimated_units_in_row among the keyword arguments.
StreetAnalyses ==
    {StreetViewAnalysis([construction_epoch     |-> "1990_2000",
                         building_type          |-> t,
                         estimated_storeys      |-> n,
                         heating_system_guess   |-> "gas_boiler",
                         adjacent_side          |-> "length",
                         estimated_units_in_row |-> IF t = "detached" THEN 1 ELSE MaxUnits,
                         confidence             |-> c,
                         reasoning              |-> ""]) :
        t \in {"detached", "terraced_length"}, n \in {0, 2}, c \in {Dec(1, 10), Dec(7, 10)}}

\* What analyze_satellite can return.
SatelliteFootprints ==
    {FootprintResult(FromInt(10), FromInt(8), FromInt(80), Dec(7, 10), "claude_vision"),
     FootprintResult(FromInt(12), FromInt(24), FromInt(288), Dec(2, 10), "claude_vision")}

\* What extract_footprint can return.
ExtractedFootprints ==
    {FootprintResult(FromInt(11), FromInt(8), FromInt(88), Dec(5, 10), "opencv"),
     FootprintResult(0, 0, 0, 0, "opencv")}

InitPipeline ==
    /\ tables = ConstantTables
    /\ kwh_arg = 0
    /\ threads = <<>>
    /\ kwargs = [eircode |-> "D02 X285", retrofit |-> None, overrides |-> None]
    /\ building = typical_irish_house
    /\ retrofit = None
    /\ result = None
    /\ raised = "none"
    /\ lastCall = "none"
    /\ pipeline = [pc       |-> "geocode",
                   result   |-> PipelineResult,
                   sv_paths |-> <<>>,
                   phases   |-> {},
                   raised   |-> "none"]

\* Phase 1 (lines 61-66): geocode_eircode returns coordinates or raises.
RunGeocode ==
    /\ pipeline.pc = "geocode"
    /\ \E ok \in BOOLEAN :
        pipeline' =
            IF ok
            THEN [pipeline EXCEPT !.pc = "fetch",
                                  !.phases = @ \cup {"geocode"},
                                  !.result.coordinates = Some("coords")]
            ELSE [pipeline EXCEPT !.pc = "returned",
                                  !.phases = @ \cup {"geocode"},
                                  !.result.errors = Append(@, "Geocoding failed")]
    /\ UNCHANGED <<tables, building, retrofit, kwh_arg, result, raised, lastCall, threads, kwargs>>

\* Phase 2 (lines 68-95): both fetches gathered with return_exceptions=True.
RunFetchImages ==
    /\ pipeline.pc = "fetch"
    /\ \E sat \in {"path", "exception"}, sv \in {"paths", "empty", "exception"} :
        LET r1 == IF sat = "path"
                  THEN [pipeline.result EXCEPT !.satellite_image_path = Some("satellite.jpg")]
                  ELSE [pipeline.result EXCEPT !.errors = Append(@, "Satellite image failed")]
            r2 == IF sv = "paths"
                  THEN [r1 EXCEPT !.streetview_image_path = Some("streetview_0.jpg")]
                  ELSE IF sv = "empty"
                  THEN [r1 EXCEPT !.errors = Append(@, "No Street View available at this location")]
                  ELSE [r1 EXCEPT !.errors = Append(@, "Street View failed")]
        IN  pipeline' = [pipeline EXCEPT
                            !.pc = "street",
                            !.phases = @ \cup {"fetch"},
                            !.sv_paths = IF sv = "paths" THEN <<"streetview_0.jpg">> ELSE <<>>,
                            !.result = r2]
    /\ UNCHANGED <<tables, building, retrofit, kwh_arg, result, raised, lastCall, threads, kwargs>>

\* Phase 3 (lines 97-103): analyze_streetview returns an analysis or raises.
RunStreetAnalysis ==
    /\ pipeline.pc = "street"
    /\ IF pipeline.sv_paths # <<>>
       THEN \/ \E analysis \in StreetAnalyses :
                    pipeline' = [pipeline EXCEPT
                                    !.pc = "footprint",
                                    !.phases = @ \cup {"street"},
                                    !.result.street_analysis = Some(analysis)]
            \/ pipeline' = [pipeline EXCEPT
                                !.pc = "footprint",
                                !.phases = @ \cup {"street"},
                                !.result.errors = Append(@, "Claude analysis failed")]
       ELSE pipeline' = [pipeline EXCEPT !.pc = "footprint"]
    /\ UNCHANGED <<tables, building, retrofit, kwh_arg, result, raised, lastCall, threads, kwargs>>

\* The exception the reads of lines 112-116 raise, or "none".
sat_kwargs_raises(presult) ==
    IF ~IsNone(presult.street_analysis) /\ Val(presult.street_analysis).confidence >= Dec(4, 10)
    THEN IF /\ HasAttribute(Val(presult.street_analysis), "building_type")
            /\ HasAttribute(Val(presult.street_analysis), "adjacent_side")
            /\ HasAttribute(Val(presult.street_analysis), "estimated_units_in_row")
         THEN "none"
         ELSE "AttributeError"
    ELSE "none"

\* The PipelineResult after the two footprint calls (lines 118-137);
\* claude_fp and opencv_fp are None where the call raised.
footprint_errors(presult, claude_fp, opencv_fp) ==
    LET r1 == IF IsNone(claude_fp)
              THEN [presult EXCEPT !.errors = Append(@, "Claude satellite analysis failed")]
              ELSE presult
    IN  IF IsNone(opencv_fp)
        THEN [r1 EXCEPT !.errors = Append(@, "OpenCV footprint extraction failed")]
        ELSE r1

\* The PipelineResult after lines 150-153 for the footprint kept.
footprint_stored(presult, footprint) ==
    IF ~IsNone(footprint) /\ Val(footprint).confidence > 0
    THEN [presult EXCEPT !.footprint = footprint]
    ELSE [presult EXCEPT !.errors = Append(@, "Footprint extraction found no building contour")]

\* Phase 4 (lines 105-153): satellite analysis, OpenCV extraction,
\* reconciliation and terrace correction. The attribute reads of lines 112-116
\* and the call of _correct_terrace_footprint are outside every try block.
RunFootprint ==
    /\ pipeline.pc = "footprint"
    /\ IF IsNone(pipeline.result.satellite_image_path)
       THEN pipeline' = [pipeline EXCEPT !.pc = "ber"]
       ELSE IF sat_kwargs_raises(pipeline.result) # "none"
       THEN pipeline' = [pipeline EXCEPT !.pc = "raised",
                                         !.phases = @ \cup {"footprint"},
                                         !.raised = sat_kwargs_raises(pipeline.result)]
       ELSE \E claude_fp \in {None} \cup {Some(fp) : fp \in SatelliteFootprints},
               opencv_fp \in {None} \cup {Some(fp) : fp \in ExtractedFootprints} :
                LET r1        == footprint_errors(pipeline.result, claude_fp, opencv_fp)
                    footprint == reconcile_footprints(claude_fp, opencv_fp)
                    corrects  == ~IsNone(footprint) /\ ~IsNone(r1.street_analysis)
                IN  IF corrects /\ correct_terrace_raises(Val(r1.street_analysis)) # "none"
                    THEN pipeline' = [pipeline EXCEPT
                                        !.pc = "raised",
                                        !.phases = @ \cup {"footprint"},
                                        !.result = r1,
                                        !.raised = correct_terrace_raises(Val(r1.street_analysis))]
                    ELSE pipeline' = [pipeline EXCEPT
                                        !.pc = "ber",
                                        !.phases = @ \cup {"footprint"},
                                        !.result = footprint_stored(r1,
                                            IF corrects
                                            THEN Some(correct_terrace_footprint(Val(footprint), Val(r1.street_analysis)))
                                            ELSE footprint)]
    /\ UNCHANGED <<tables, building, retrofit, kwh_arg, result, raised, lastCall, threads, kwargs>>

\* Phase 5 (lines 155-161): _build_input and calculate_ber inside one try.
RunBer ==
    /\ pipeline.pc = "ber"
    /\ LET data == BuildingInputData(build_input_params(pipeline.result, kwargs.overrides))
       IN  pipeline' =
            IF ValidBuildingInput(data)
            THEN [pipeline EXCEPT !.pc = "returned",
                                  !.phases = @ \cup {"ber"},
                                  !.result.ber_result = Some(calculate_ber(data, kwargs.retrofit))]
            ELSE [pipeline EXCEPT !.pc = "returned",
                                  !.phases = @ \cup {"ber"},
                                  !.result.errors = Append(@, "BER calculation failed")]
    /\ UNCHANGED <<tables, building, retrofit, kwh_arg, result, raised, lastCall, threads, kwargs>>

NextPipeline ==
    \/ RunGeocode
    \/ RunFetchImages
    \/ RunStreetAnalysis
    \/ RunFootprint
    \/ RunBer

SpecPipeline == InitPipeline /\ [][NextPipeline]_vars

---------------------------------------------------------------------------
(* C28 *)

HasError(presult, message) == \E i \in DOMAIN presult.errors : presult.errors[i] = message

\* C28: run never propagates an exception; when geocoding fails it returns
\* at once with a 'Geocoding failed' error, no ber_result and no later phase
\* executed; when geocoding succeeds, whatever the fetches and analyses do, the
\* PipelineResult returned has ber_result set or a 'BER calculation failed'
\* error.
C28_PipelineCompletion ==
    /\ pipeline.pc # "raised"
    /\ pipeline.raised = "none"
    /\ (pipeline.pc = "returned" /\ IsNone(pipeline.result.coordinates)) =>
            /\ pipeline.result.errors = <<"Geocoding failed">>
            /\ IsNone(pipeline.result.ber_result)
            /\ pipeline.phases = {"geocode"}
    /\ (pipeline.pc = "returned" /\ ~IsNone(pipeline.result.coordinates)) =>
            \/ ~IsNone(pipeline.result.ber_result)
            \/ HasError(pipeline.result, "BER calculation failed")

---------------------------------------------------------------------------
(* C29 *)

\* C29: in every BERResult returned by calculate_ber, ber_band is the band
\* get_ber_band gives to the reported kwh_per_m2, and retrofit_ber_band the
\* band it gives to the reported retrofit_kwh_per_m2.
C29_BandMatchesReportedIntensity ==
    (lastCall = "calculate_ber" /\ raised = "none") =>
        /\ Val(result).ber_band = get_ber_band(Val(result).kwh_per_m2)[1]
        /\ ~IsNone(Val(result).retrofit_kwh_per_m2) =>
                Val(Val(result).retrofit_ber_band)
                    = get_ber_band(Val(Val(result).retrofit_kwh_per_m2))[1]

---------------------------------------------------------------------------
(* C30 *)

\* C30: for every valid BuildingInput with derived window areas, of every
\* building type, the external wall area (envelope - windows and doors - party
\* walls) is >= 0, and so is the wall term of the transmission coefficient.
C30_ExternalWallNonNegative ==
    (/\ lastCall = "calculate" /\ raised = "none"
     /\ ValidBuildingInput(building)
     /\ IsNone(building.window_door_areas)) =>
        LET geo == core_geometry(building)
        IN  /\ geo.envelope_area - geo.win_door_total - adjacent_wall_area(building) >= 0
            /\ geo.external_walls >= 0
            /\ Mul(tables.U_VALUES[building.construction_epoch].AW, geo.external_walls) >= 0

===========================================================================
